---- MODULE Spec2Model ----
(***************************************************************************)
(* GitLab -> GitHub metadata transfer (src/gittransfer-metadata.py).       *)
(*                                                                         *)
(* The module models                                                       *)
(*   - GitHubMetadataImporter: check_rate_limit, retry_with_backoff,       *)
(*     resolve_github_username, import_labels, import_milestones,          *)
(*     import_issues, import_issue_comments;                               *)
(*   - MetadataTransferTool: load_user_mappings, import_metadata,          *)
(*     export_metadata, create_user_mapping_file;                          *)
(*   - GitLabMetadataExtractor: get_user_mapping and the extract_* loops;  *)
(*   - GitTransfer (src/gittransfer.py): transfer_repository and           *)
(*     dry_run_analysis with the steps they call.                          *)
(* The destination repository, the source project and the files of the    *)
(* export directory are the environment.                                   *)
(***************************************************************************)
EXTENDS Integers, Sequences, FiniteSets, TLC

(***************************************************************************)
(* Program constants (src/gittransfer-metadata.py:41-43).                  *)
(***************************************************************************)
RATE_LIMIT_BUFFER == 10
MAX_RETRY_ATTEMPTS == 3
RETRY_DELAY_SECONDS == 2

(***************************************************************************)
(* Bounds of the model.                                                    *)
(***************************************************************************)
\* anomalies of the environment in one history: destination calls that fail
\* with a transient error, and rate-limit probes that fail or see low quota
MaxAnomalies == 3
\* times the operator runs import_metadata on the same export directory
MaxRuns == 2

None == "None"

EmptyMap == [x \in {} |-> 0]

Range(s) == {s[i] : i \in 1..Len(s)}

FirstIndex(s, x) ==
    CHOOSE i \in 1..Len(s) : s[i] = x /\ \A j \in 1..(i - 1) : s[j] # x

Max(a, b) == IF a >= b THEN a ELSE b

\* the ids of a list of records
Ids(s) == [k \in 1..Len(s) |-> s[k].id]

(***************************************************************************)
(* UserMapping (dataclass, lines 48-56).  None and "" are both falsy in    *)
(* the code's tests; "" stands for both.  An instance of a dataclass is a  *)
(* record with a `class` field; a dict is a record without one.            *)
(***************************************************************************)
UserMapping(username, id, gh, fallback) ==
    [class |-> "UserMapping", gitlab_username |-> username, gitlab_id |-> id,
     github_username |-> gh, fallback_name |-> fallback]

\* UserMapping(**d): the instance built from a dict (1026, 1127-1135, 594)
UserMappingOf(d) ==
    UserMapping(d.gitlab_username, d.gitlab_id, d.github_username, d.fallback_name)

RECURSIVE asdict(_)
\* dataclasses.asdict: the instance and the instances nested in its fields
\* and lists become dicts; the comments are dicts already
asdict(obj) ==
    CASE obj.class = "UserMapping" ->
           [gitlab_username |-> obj.gitlab_username, gitlab_id |-> obj.gitlab_id,
            github_username |-> obj.github_username,
            fallback_name |-> obj.fallback_name]
      [] obj.class = "IssueData" ->
           [id |-> obj.id, iid |-> obj.iid, description |-> obj.description,
            state |-> obj.state, author |-> asdict(obj.author),
            assignees |-> [i \in 1..Len(obj.assignees) |-> asdict(obj.assignees[i])],
            labels |-> obj.labels, milestone |-> obj.milestone,
            comments |-> obj.comments]
      [] obj.class = "MergeRequestData" ->
           [id |-> obj.id, iid |-> obj.iid, description |-> obj.description,
            state |-> obj.state, author |-> asdict(obj.author),
            assignee |-> [i \in 1..Len(obj.assignee) |-> asdict(obj.assignee[i])],
            labels |-> obj.labels, milestone |-> obj.milestone,
            comments |-> obj.comments]

\* the authors as extraction writes them: github_username is never set
Alice == UserMapping("alice", 1, "", "Alice A")
Bob   == UserMapping("bob", 2, "", "")

(***************************************************************************)
(* Snapshots (metadata_export.json) the import is run on.                  *)
(***************************************************************************)
IssueA ==
    [class |-> "IssueData",
     id |-> 101, iid |-> 1, description |-> "text", state |-> "closed",
     author |-> Alice, assignees |-> <<Bob>>,
     labels |-> <<"bug", "wontfix">>, milestone |-> "v1",
     comments |-> <<[id |-> 11, author |-> asdict(Bob)],
                    [id |-> 12, author |-> asdict(Alice)]>>]
IssueB ==
    [class |-> "IssueData",
     id |-> 102, iid |-> 2, description |-> "", state |-> "opened",
     author |-> Bob, assignees |-> <<>>,
     labels |-> <<"ui", "bug">>, milestone |-> None,
     comments |-> <<[id |-> 13, author |-> asdict(Alice)]>>]
\* change requests; assignee is the list of the zero or one assignees
MergeRequestA ==
    [class |-> "MergeRequestData",
     id |-> 201, iid |-> 1, description |-> "mr", state |-> "merged",
     author |-> Bob, assignee |-> <<Alice>>,
     labels |-> <<"ui">>, milestone |-> None,
     comments |-> <<[id |-> 21, author |-> asdict(Bob)]>>]
MergeRequestB ==
    [class |-> "MergeRequestData",
     id |-> 203, iid |-> 3, description |-> "", state |-> "closed",
     author |-> Alice, assignee |-> <<>>,
     labels |-> <<>>, milestone |-> "v1",
     comments |-> <<>>]

LabelLists == {<<"bug", "ui">>, <<"bug", "bug">>}
MilestoneLists == {<<>>, <<"v1">>}
IssueLists == {<<>>, <<IssueA, IssueB>>}

\* what extraction hands to the export: the four extracted lists
Snapshots ==
    [labels : LabelLists, milestones : {<<"v1">>}, issues : IssueLists,
     merge_requests : {<<>>}]
    \cup [labels : {<<"bug", "ui">>}, milestones : {<<>>}, issues : IssueLists,
          merge_requests : {<<>>}]
    \cup [labels : {<<"bug", "bug">>}, milestones : {<<>>}, issues : IssueLists,
          merge_requests : {<<MergeRequestA, MergeRequestB>>}]

\* export_data of export_metadata (1036-1048): asdict of every record
ExportData(issues, merge_requests, labels, milestones) ==
    [labels |-> labels, milestones |-> milestones,
     issues |-> [i \in 1..Len(issues) |-> asdict(issues[i])],
     merge_requests |-> [i \in 1..Len(merge_requests) |-> asdict(merge_requests[i])]]

\* the JSON form of an optional string: null or a string
JsonOptional(v) ==
    IF v = None THEN [t |-> "null", v |-> ""] ELSE [t |-> "string", v |-> v]

FromJsonOptional(j) == IF j.t = "null" THEN None ELSE j.v

\* json.dump (1052-1053): the text of metadata_export.json
json_dump(data) ==
    [labels |-> data.labels, milestones |-> data.milestones,
     issues |-> [i \in 1..Len(data.issues) |->
                   [data.issues[i] EXCEPT !.milestone = JsonOptional(@)]],
     merge_requests |-> [i \in 1..Len(data.merge_requests) |->
                   [data.merge_requests[i] EXCEPT !.milestone = JsonOptional(@)]]]

\* json.load (1121-1122)
json_load(text) ==
    [labels |-> text.labels, milestones |-> text.milestones,
     issues |-> [i \in 1..Len(text.issues) |->
                   [text.issues[i] EXCEPT !.milestone = FromJsonOptional(@)]],
     merge_requests |-> [i \in 1..Len(text.merge_requests) |->
                   [text.merge_requests[i] EXCEPT !.milestone = FromJsonOptional(@)]]]

\* a variant that leaves the assignees as the dicts json.load returned
LoadAssigneesAsDicts(ds) == ds

\* line 1128: [UserMapping(**a) for a in issue_dict['assignees']]
LoadAssignees(ds) == [i \in 1..Len(ds) |-> UserMappingOf(ds[i])]

\* lines 1126-1129: IssueData(**issue_dict) after author and assignees were
\* rebuilt
LoadIssue(issue_dict) ==
    [class |-> "IssueData",
     id |-> issue_dict.id, iid |-> issue_dict.iid,
     description |-> issue_dict.description, state |-> issue_dict.state,
     author |-> UserMappingOf(issue_dict.author),
     assignees |-> LoadAssignees(issue_dict.assignees),
     labels |-> issue_dict.labels, milestone |-> issue_dict.milestone,
     comments |-> issue_dict.comments]

\* lines 1132-1136: the assignee is rebuilt when there is one
LoadMergeRequest(mr_dict) ==
    [class |-> "MergeRequestData",
     id |-> mr_dict.id, iid |-> mr_dict.iid,
     description |-> mr_dict.description, state |-> mr_dict.state,
     author |-> UserMappingOf(mr_dict.author),
     assignee |-> [i \in 1..Len(mr_dict.assignee) |-> UserMappingOf(mr_dict.assignee[i])],
     labels |-> mr_dict.labels, milestone |-> mr_dict.milestone,
     comments |-> mr_dict.comments]

\* lines 1121-1139: the lists import_metadata works on
LoadSnapshot(text) ==
    LET data == json_load(text)
    IN  [labels |-> data.labels, milestones |-> data.milestones,
         issues |-> [i \in 1..Len(data.issues) |-> LoadIssue(data.issues[i])],
         merge_requests |-> [i \in 1..Len(data.merge_requests) |->
                               LoadMergeRequest(data.merge_requests[i])]]

\* the file export_metadata writes for the four lists
SnapshotFile(s) ==
    json_dump(ExportData(s.issues, s.merge_requests, s.labels, s.milestones))

(***************************************************************************)
(* user_mapping.json: gitlab_username -> entry.  The operator edits the    *)
(* github_username field only.                                             *)
(***************************************************************************)
MappingEntry(u, gh) ==
    [gitlab_username |-> u.gitlab_username, gitlab_id |-> u.gitlab_id,
     github_username |-> gh, github_id |-> None,
     fallback_name |-> u.fallback_name]

EditedMapping == ("alice" :> MappingEntry(Alice, "alice_gh")) @@ ("bob" :> MappingEntry(Bob, ""))

\* `writable` tells whether open(mapping_file, 'w') succeeds (964)
NoMappingFile == [exists |-> FALSE, data |-> EmptyMap, writable |-> TRUE]
MappingFiles ==
    {NoMappingFile,
     [exists |-> TRUE, data |-> EditedMapping, writable |-> TRUE]}

\* the operator has protected the edited file against writing
ReadOnlyMappingFile == [exists |-> TRUE, data |-> EditedMapping, writable |-> FALSE]

EmptySnapshot ==
    [labels |-> <<>>, milestones |-> <<>>, issues |-> <<>>, merge_requests |-> <<>>]

\* import_summary.txt has not been written
NoSummary == [exists |-> FALSE, issues |-> 0, labels |-> 0, milestones |-> 0]
ExportFiles ==
    {[exists |-> FALSE, data |-> EmptySnapshot]}
    \cup {[exists |-> TRUE, data |-> SnapshotFile(s)] : s \in Snapshots}

\* what the destination repository holds before the first import
DestStates ==
    {[labels |-> <<>>, milestones |-> <<>>],
     [labels |-> <<"bug">>, milestones |-> <<"v1">>]}

(***************************************************************************)
(* Source projects the export is run on.  A user id that is not in         *)
(* SrcUsers cannot be fetched (deleted account).  `fails` names the        *)
(* categories whose list call raises and `error` is the text of the        *)
(* exception, as its words; `bad` marks an item whose fields               *)
(* make the loop body raise; notes_ok tells whether its notes can be       *)
(* read to the end, and when they cannot, notes_read is the number of      *)
(* notes read before the failure.                                          *)
(***************************************************************************)
SrcUsers ==
    (1 :> [username |-> "alice", name |-> "Alice A"])
    @@ (2 :> [username |-> "bob", name |-> ""])

SrcIssue1 ==
    [id |-> 101, iid |-> 1, description |-> "text", state |-> "closed",
     author |-> 1, assignees |-> <<2>>, labels |-> <<"bug", "wontfix">>,
     milestone |-> "v1", bad |-> FALSE, notes_ok |-> TRUE, notes_read |-> 0,
     notes |-> <<[id |-> 11, system |-> FALSE, author |-> 2],
                 [id |-> 12, system |-> TRUE, author |-> 3]>>]
SrcIssue2 ==
    [id |-> 102, iid |-> 2, description |-> "", state |-> "opened",
     author |-> 3, assignees |-> <<>>, labels |-> <<>>,
     milestone |-> None, bad |-> FALSE, notes_ok |-> FALSE, notes_read |-> 0,
     notes |-> <<[id |-> 13, system |-> FALSE, author |-> 1]>>]
SrcIssue3 ==
    [id |-> 103, iid |-> 3, description |-> "", state |-> "opened",
     author |-> 1, assignees |-> <<>>, labels |-> <<>>,
     milestone |-> None, bad |-> TRUE, notes_ok |-> TRUE, notes_read |-> 0,
     notes |-> <<>>]
SrcIssue4 ==
    [id |-> 104, iid |-> 4, description |-> "", state |-> "opened",
     author |-> 2, assignees |-> <<>>, labels |-> <<"ui">>,
     milestone |-> None, bad |-> FALSE, notes_ok |-> FALSE, notes_read |-> 2,
     notes |-> <<[id |-> 14, system |-> FALSE, author |-> 1],
                 [id |-> 15, system |-> TRUE, author |-> 2],
                 [id |-> 16, system |-> FALSE, author |-> 2]>>]
SrcMR1 ==
    [id |-> 201, iid |-> 1, description |-> "mr", state |-> "merged",
     author |-> 2, assignee |-> <<1>>, labels |-> <<"ui">>,
     milestone |-> None, bad |-> FALSE, notes_ok |-> TRUE, notes_read |-> 0,
     notes |-> <<[id |-> 23, system |-> TRUE, author |-> 1],
                 [id |-> 21, system |-> FALSE, author |-> 2]>>]
SrcMR2 ==
    [id |-> 202, iid |-> 2, description |-> "", state |-> "opened",
     author |-> 1, assignee |-> <<>>, labels |-> <<>>,
     milestone |-> None, bad |-> FALSE, notes_ok |-> TRUE, notes_read |-> 0,
     notes |-> <<>>]
SrcMR3 ==
    [id |-> 203, iid |-> 3, description |-> "", state |-> "closed",
     author |-> 3, assignee |-> <<>>, labels |-> <<>>,
     milestone |-> "v1", bad |-> FALSE, notes_ok |-> FALSE, notes_read |-> 2,
     notes |-> <<[id |-> 24, system |-> TRUE, author |-> 2],
                 [id |-> 22, system |-> FALSE, author |-> 1],
                 [id |-> 25, system |-> FALSE, author |-> 2]>>]
SrcMR4 ==
    [id |-> 204, iid |-> 4, description |-> "", state |-> "locked",
     author |-> 2, assignee |-> <<>>, labels |-> <<>>,
     milestone |-> None, bad |-> FALSE, notes_ok |-> TRUE, notes_read |-> 0,
     notes |-> <<>>]

SrcProjects ==
    [issues : {<<>>, <<SrcIssue1>>, <<SrcIssue3>>, <<SrcIssue1, SrcIssue2>>,
               <<SrcIssue4, SrcIssue2, SrcIssue1>>},
     merge_requests : {<<>>, <<SrcMR2>>, <<SrcMR2, SrcMR1>>, <<SrcMR3, SrcMR4, SrcMR1>>},
     labels : {<<"bug", "ui">>},
     milestones : {<<"v1">>},
     fails : {{}, {"issues"}, {"merge_requests"}, {"labels", "milestones"}},
     error : {<<"500", "Internal Server Error">>}]

EmptyProject ==
    [issues |-> <<>>, merge_requests |-> <<>>, labels |-> <<>>,
     milestones |-> <<>>, fails |-> {}, error |-> <<"500", "Internal Server Error">>]

(***************************************************************************)
(* What a rate-limit probe may observe: core.remaining, and the distance   *)
(* in seconds from now to core.reset.                                      *)
(***************************************************************************)
Remainings == {0, 9, 10}
ResetDeltas == {-20, 30}
FaultKinds == {"RateLimitExceededException", "Exception"}

VARIABLES
    \* ---- destination repository (GitHub) ----
    destLabels,          \* names of the label objects, in creation order
    destMilestones,      \* titles of the milestone objects
    destIssues,          \* issue objects; the index is the issue number
    \* ---- export directory ----
    exportFile,          \* metadata_export.json: None or a snapshot
    mappingFile,         \* user_mapping.json: None or the mapping
    summaryFile,         \* import_summary.txt: None or the counts it reports
    \* ---- MetadataTransferTool / import_metadata ----
    pc,                  \* position in import_metadata and the import_* loops
    run,                 \* which run of import_metadata this is
    user_mappings,       \* tool.user_mappings
    idx,                 \* loop index of the current import_* loop
    cidx,                \* loop index of import_issue_comments
    imported_labels,     \* name -> label handle
    label_failures,      \* names import_labels reported as failed (457)
    imported_milestones, \* title -> milestone handle
    imported_issues,     \* correlation records
    github_issue,        \* number of the issue import_issues just created
    result,              \* return value of import_metadata
    export_data,         \* the snapshot import_metadata loaded
    returned,            \* import_* methods that have returned in this run
    \* ---- GitHubMetadataImporter resilience layer ----
    rate_limit_warned,
    attempt,             \* loop variable of retry_with_backoff
    rpc,                 \* "idle", "probe", "call", "returned", "raised"
    ret,                 \* value returned / exception raised by retry_with_backoff
    \* ---- environment ----
    anomaliesLeft,       \* anomalies the environment may still produce
    faulted,             \* whether a destination call has failed with a transient error
    \* ---- observations ----
    outcomes,            \* outcome of each invocation of the wrapped call (this retry_with_backoff)
    sleeps,              \* time.sleep calls of this retry_with_backoff
    probes,              \* what the probes of the current attempt observed
    quota,               \* remaining seen by the latest successful probe
    warned_now,          \* whether the latest probe printed the low-quota warning
    stats,               \* per run: whether create_issue / create_label or create_milestone was invoked
    \* ---- source project (GitLab) ----
    srcProject,          \* what the list calls of the project answer
    \* ---- GitLabMetadataExtractor / export_metadata ----
    epc,                 \* position in export_metadata and the extract_* loops
    eidx,                \* loop index of the current extract_* loop
    user_cache,          \* extractor.user_cache: user id -> UserMapping
    users_get,           \* the ids gitlab.users.get was called with, in order
    ex_issues,           \* issues, merge_requests, labels, milestones of export_metadata
    ex_merge_requests,
    ex_labels,
    ex_milestones,
    all_users,
    export_result,       \* return value of export_metadata
    \* ---- MetadataTransferTool / transfer_metadata ----
    tpc,                 \* position in transfer_metadata / dry_run_analysis
    dry_run,             \* tool.dry_run
    gitlab_client,       \* tool.gitlab_client: "None", or how far its setup got
    github_client,       \* tool.github_client
    gitlab_project,      \* tool.gitlab_project
    github_repo,         \* tool.github_repo
    validation_results,  \* locals of validate_repositories
    has_blocking_errors,
    has_warnings,
    asked,               \* whether Confirm.ask was called
    proceed,             \* the operator's answer
    validation,          \* what validate_repositories returned
    metadata_check,      \* metadata_check of dry_run_analysis
    transfer_result,     \* return value of transfer_metadata
    \* ---- a call of resolve_github_username ----
    resolve_arg,         \* the UserMapping it is called with
    resolve_ret,         \* the string it returned, as its pieces; <<>> before the call
    \* ---- GitTransfer / transfer_repository (gittransfer.py) ----
    gpc,                 \* position in transfer_repository / dry_run_analysis
    gt_dry_run,          \* GitTransfer.dry_run
    github_org,          \* arguments of transfer_repository
    new_repo_name,
    srcRepo,             \* the GitLab repository: its project name, branches and tags
    gt_project,          \* gitlab_project of transfer_repository
    temp_dir,            \* GitTransfer.temp_dir
    repo_clone,          \* GitTransfer.repo_clone
    tempDir,             \* the file system at the temporary path
    gt_github_repo,      \* github_repo of transfer_repository
    destRepo,            \* the GitHub repository create_repo makes
    reported_dir,        \* the directory the failure message of push_to_github names
    gt_result,           \* how transfer_repository ended
    gt_steps             \* the steps transfer_repository made, with their outcome

destVars == <<destLabels, destMilestones, destIssues>>
fileVars == <<exportFile, mappingFile, summaryFile>>
loopVars == <<idx, cidx, imported_labels, label_failures, imported_milestones, imported_issues, github_issue>>
toolVars == <<pc, run, user_mappings, result, export_data, returned>>
retryVars == <<rate_limit_warned, attempt, rpc, ret>>
envVars == <<anomaliesLeft, faulted>>
obsVars == <<outcomes, sleeps, probes, quota, warned_now, stats>>
importVars == <<destVars, loopVars, toolVars, retryVars, envVars, obsVars>>
exportVars == <<srcProject, epc, eidx, user_cache, users_get, ex_issues, ex_merge_requests,
                ex_labels, ex_milestones, all_users, export_result>>
transferVars == <<tpc, dry_run, gitlab_client, github_client, gitlab_project, github_repo, validation_results,
                  has_blocking_errors, has_warnings, asked, proceed, validation,
                  metadata_check, transfer_result>>
resolverVars == <<resolve_arg, resolve_ret>>
repoVars == <<gpc, gt_dry_run, github_org, new_repo_name, srcRepo, gt_project, temp_dir,
              repo_clone, tempDir, gt_github_repo, destRepo, reported_dir, gt_result,
              gt_steps>>
vars == <<importVars, fileVars, exportVars, transferVars, resolverVars, repoVars>>

(***************************************************************************)
(* GitHubMetadataImporter: identity resolution and provenance footer.      *)
(***************************************************************************)
\* the truth value of an Optional[str] in an if test: None and "" are false
Truthy(v) == v # None /\ v # ""

\* a variant without the middle branch
resolve_github_usernameNoFallback(user_mapping) ==
    IF Truthy(user_mapping.github_username)
    THEN <<"@", user_mapping.github_username>>
    ELSE <<"@", user_mapping.gitlab_username, " (GitLab)">>

\* resolve_github_username: a mention is the list of its text pieces
resolve_github_username(user_mapping) ==
    IF Truthy(user_mapping.github_username)
    THEN <<"@", user_mapping.github_username>>
    ELSE IF Truthy(user_mapping.fallback_name)
         THEN <<user_mapping.fallback_name>>
         ELSE <<"@", user_mapping.gitlab_username, " (GitLab)">>

\* format_gitlab_metadata: the footer names the resolved author
format_gitlab_metadata(author) ==
    [by |-> resolve_github_username(author)]

\* body of the created issue (import_issues, lines 535-543)
IssueBody(issue_data) ==
    [text |-> IF issue_data.description # "" THEN issue_data.description
              ELSE "*Issue imported from GitLab*",
     footer |-> format_gitlab_metadata(issue_data.author)]

\* body of a replayed comment (import_issue_comments, lines 594-600)
CommentBody(comment_data) ==
    [id |-> comment_data.id,
     footer |-> [by |-> resolve_github_username(UserMappingOf(comment_data.author))]]

\* a variant that passes no label at all
GithubLabelsNone(names, table) == <<>>

RECURSIVE GithubLabels(_, _)
\* the handles of the label names that are keys of the table (lines 546-549)
GithubLabels(names, table) ==
    IF names = <<>> THEN <<>>
    ELSE (IF Head(names) \in DOMAIN table THEN <<table[Head(names)]>> ELSE <<>>)
         \o GithubLabels(Tail(names), table)

\* a variant that passes the first milestone of the repository for every
\* issue that names a milestone
IssueMilestoneUnchecked(issue_data, table) ==
    IF issue_data.milestone # None THEN 1 ELSE 0

\* the milestone handle passed to create_issue (lines 552-554); 0 is None
IssueMilestone(issue_data, table) ==
    IF issue_data.milestone # None /\ issue_data.milestone \in DOMAIN table
    THEN table[issue_data.milestone] ELSE 0

(***************************************************************************)
(* The destination call the importer is waiting for, from its position.    *)
(***************************************************************************)
\* a variant that hands the change requests to import_issues as well
IssuesToImportWithMergeRequests == export_data.issues \o export_data.merge_requests

\* the list import_metadata hands to import_issues (1151)
IssuesToImport == export_data.issues

CurrentIssue == IssuesToImport[idx]

\* a variant that closes every created issue
ClosesAfterCommentsAlways(issue_data) == TRUE

\* line 569
ClosesAfterComments(issue_data) == issue_data.state = "closed"

\* a variant that replays the comments on the issue created before
CommentTargetPrevious == Max(github_issue - 1, 1)

\* the issue import_issue_comments is handed at 566 and comments on at 602
CommentTarget == github_issue

\* the name or title the current label / milestone call is about
CurrentName ==
    IF pc \in {"get_label", "create_label"} THEN export_data.labels[idx]
    ELSE export_data.milestones[idx]

(***************************************************************************)
(* Resilience layer: check_rate_limit (355-377), retry_with_backoff        *)
(* (379-398).                                                              *)
(***************************************************************************)
\* line 362
QuotaLow(remaining) == remaining < RATE_LIMIT_BUFFER

\* a variant that sleeps for wait_time as computed
WaitTimeUnclamped(delta) == delta + 10

\* lines 368-370: time.sleep(max(wait_time, 0))
WaitTime(delta) == Max(delta + 10, 0)

\* rate_limit_warned after one pass of the body that observed `remaining`
WarnedAfterProbeNeverSet(remaining, warned) ==
    IF QuotaLow(remaining) /\ remaining = 0 THEN FALSE ELSE warned

WarnedAfterProbe(remaining, warned) ==
    IF QuotaLow(remaining)
    THEN (IF remaining = 0 THEN FALSE ELSE TRUE)
    ELSE warned

\* where check_rate_limit goes after observing `remaining`: the recursive
\* probe (line 372) or back to the caller (line 374)
AfterProbeNoReprobe(remaining) == "call"

AfterProbe(remaining) ==
    IF QuotaLow(remaining) /\ remaining = 0 THEN "probe" ELSE "call"

\* lines 387, 394
BackoffDelayFlat(a) == RETRY_DELAY_SECONDS

BackoffDelay(a) == (2 ^ a) * RETRY_DELAY_SECONDS

\* lines 386, 393: the handlers sleep and go on unless this was the last attempt
MayRetryOffByOne(a) == a < MAX_RETRY_ATTEMPTS

MayRetry(a) == a < MAX_RETRY_ATTEMPTS - 1

\* a variant that invokes the call of the first attempt without a probe
StartRetryWithoutProbe ==
    /\ attempt' = 0
    /\ rpc' = "call"
    /\ ret' = [val |-> 0, exc |-> None]
    /\ outcomes' = <<>>
    /\ sleeps' = <<>>
    /\ probes' = <<>>
    /\ UNCHANGED <<rate_limit_warned, quota, warned_now>>

\* entry of retry_with_backoff
StartRetry ==
    /\ attempt' = 0
    /\ rpc' = "probe"
    /\ ret' = [val |-> 0, exc |-> None]
    /\ outcomes' = <<>>
    /\ sleeps' = <<>>
    /\ probes' = <<>>
    /\ UNCHANGED <<rate_limit_warned, quota, warned_now>>

\* a variant whose handler lets the exception out to retry_with_backoff
AfterProbeFailureRaises == "raised"

\* 375-377: the handler returns True and retry_with_backoff goes on to 384
AfterProbeFailure == "call"

\* get_rate_limit raises: the handler prints and returns True (375-377)
ProbeRaises ==
    /\ rpc = "probe"
    /\ anomaliesLeft > 0
    /\ anomaliesLeft' = anomaliesLeft - 1
    /\ UNCHANGED faulted
    /\ probes' = Append(probes, -1)
    /\ rpc' = AfterProbeFailure
    /\ warned_now' = FALSE
    /\ UNCHANGED <<rate_limit_warned, attempt, ret>>
    /\ UNCHANGED <<outcomes, sleeps, quota, stats>>
    /\ UNCHANGED <<destVars, fileVars, exportVars, transferVars, resolverVars, repoVars, loopVars, toolVars>>

\* one pass of the body of check_rate_limit with a probe that answers
ProbeObserves(remaining, delta) ==
    /\ rpc = "probe"
    /\ QuotaLow(remaining) => anomaliesLeft > 0
    /\ anomaliesLeft' = IF QuotaLow(remaining) THEN anomaliesLeft - 1 ELSE anomaliesLeft
    /\ UNCHANGED faulted
    /\ probes' = Append(probes, remaining)
    /\ quota' = remaining
    /\ warned_now' = (QuotaLow(remaining) /\ ~rate_limit_warned)
    /\ sleeps' = IF QuotaLow(remaining) /\ remaining = 0
                 THEN Append(sleeps, [by |-> "check_rate_limit", attempt |-> attempt,
                                      secs |-> WaitTime(delta)])
                 ELSE sleeps
    /\ rate_limit_warned' = WarnedAfterProbe(remaining, rate_limit_warned)
    /\ rpc' = AfterProbe(remaining)
    /\ UNCHANGED <<attempt, ret, outcomes, stats>>
    /\ UNCHANGED <<destVars, fileVars, exportVars, transferVars, resolverVars, repoVars, loopVars, toolVars>>

CheckRateLimit ==
    \/ ProbeRaises
    \/ \E remaining \in Remainings, delta \in ResetDeltas :
          ProbeObserves(remaining, delta)

\* a variant that lets a 404 through to the caller at once
RetriedOnlyFaults(exc) == exc \in FaultKinds

\* 385, 392: `except RateLimitExceededException` and `except Exception`
\* between them catch whatever the call raises, a 404 included
Retried(exc) == exc \in FaultKinds \cup {"404"}

\* the except handlers of retry_with_backoff (385-398) for an invocation that
\* raised `exc`; when the loop runs out without raising, the function falls
\* off its end and returns None
Raise(exc) ==
    /\ outcomes' = Append(outcomes, exc)
    /\ IF Retried(exc) /\ MayRetry(attempt)
       THEN /\ sleeps' = Append(sleeps, [by |-> "retry_with_backoff", attempt |-> attempt,
                                         secs |-> BackoffDelay(attempt)])
            /\ IF attempt + 1 < MAX_RETRY_ATTEMPTS
               THEN /\ attempt' = attempt + 1
                    /\ rpc' = "probe"
                    /\ probes' = <<>>
                    /\ ret' = ret
               ELSE /\ rpc' = "returned"
                    /\ ret' = [val |-> 0, exc |-> None]
                    /\ UNCHANGED <<attempt, probes>>
       ELSE /\ rpc' = "raised"
            /\ ret' = [val |-> 0, exc |-> exc]
            /\ UNCHANGED <<sleeps, attempt, probes>>

\* the invocation is counted whether it returns or raises
StatsAfterCall ==
    [stats EXCEPT !.issue_called = @ \/ pc = "create_issue",
                  !.create_called = @ \/ pc \in {"create_label", "create_milestone"}]

\* line 384, func(*args, **kwargs) returns: the destination performs the call
CallReturns ==
    /\ rpc = "call"
    /\ pc = "get_label" => CurrentName \in Range(destLabels)
    /\ outcomes' = Append(outcomes, "ok")
    /\ rpc' = "returned"
    /\ stats' = StatsAfterCall
    /\ CASE pc = "get_label" ->
              /\ ret' = [val |-> FirstIndex(destLabels, CurrentName), exc |-> None]
              /\ UNCHANGED destVars
         [] pc = "create_label" ->
              /\ destLabels' = Append(destLabels, CurrentName)
              /\ ret' = [val |-> Len(destLabels) + 1, exc |-> None]
              /\ UNCHANGED <<destMilestones, destIssues>>
         [] pc = "get_milestones" ->
              /\ ret' = [val |-> 0, exc |-> None]
              /\ UNCHANGED destVars
         [] pc = "create_milestone" ->
              /\ destMilestones' = Append(destMilestones, CurrentName)
              /\ ret' = [val |-> Len(destMilestones) + 1, exc |-> None]
              /\ UNCHANGED <<destLabels, destIssues>>
         [] pc = "create_issue" ->
              /\ destIssues' = Append(destIssues,
                    [gitlab_id |-> CurrentIssue.id,
                     body |-> IssueBody(CurrentIssue),
                     labels |-> GithubLabels(CurrentIssue.labels, imported_labels),
                     milestone |-> IssueMilestone(CurrentIssue, imported_milestones),
                     state |-> "open",
                     comments |-> <<>>,
                     run |-> run])
              /\ ret' = [val |-> Len(destIssues) + 1, exc |-> None]
              /\ UNCHANGED <<destLabels, destMilestones>>
         [] pc = "create_comment" ->
              /\ destIssues' = [destIssues EXCEPT ![CommentTarget].comments =
                                  Append(@, CommentBody(CurrentIssue.comments[cidx]))]
              /\ ret' = [val |-> 0, exc |-> None]
              /\ UNCHANGED <<destLabels, destMilestones>>
         [] pc = "edit" ->
              /\ destIssues' = [destIssues EXCEPT ![github_issue].state = "closed"]
              /\ ret' = [val |-> 0, exc |-> None]
              /\ UNCHANGED <<destLabels, destMilestones>>
    /\ UNCHANGED <<rate_limit_warned, attempt, envVars>>
    /\ UNCHANGED <<sleeps, probes, quota, warned_now>>
    /\ UNCHANGED <<fileVars, exportVars, transferVars, resolverVars, repoVars, loopVars, toolVars>>

\* get_label of a name the destination does not hold: GithubException 404
CallRaisesNotFound ==
    /\ rpc = "call"
    /\ pc = "get_label"
    /\ CurrentName \notin Range(destLabels)
    /\ Raise("404")
    /\ stats' = StatsAfterCall
    /\ UNCHANGED <<rate_limit_warned, envVars, quota, warned_now>>
    /\ UNCHANGED <<destVars, fileVars, exportVars, transferVars, resolverVars, repoVars, loopVars, toolVars>>

\* the call fails with a rate-limit or transient error and has no effect
CallRaisesFault ==
    /\ rpc = "call"
    /\ anomaliesLeft > 0
    /\ anomaliesLeft' = anomaliesLeft - 1
    /\ faulted' = TRUE
    /\ \E exc \in FaultKinds : Raise(exc)
    /\ stats' = StatsAfterCall
    /\ UNCHANGED <<rate_limit_warned, quota, warned_now>>
    /\ UNCHANGED <<destVars, fileVars, exportVars, transferVars, resolverVars, repoVars, loopVars, toolVars>>

\* the caller has taken the result of retry_with_backoff
EndRetry ==
    /\ rpc' = "idle"
    /\ outcomes' = <<>>
    /\ sleeps' = <<>>
    /\ probes' = <<>>
    /\ UNCHANGED <<rate_limit_warned, attempt, ret, quota, warned_now>>

RetryDone == rpc \in {"returned", "raised"}

(***************************************************************************)
(* MetadataTransferTool.import_metadata (1106-1165).                       *)
(***************************************************************************)
\* the order of the import_* calls (1144-1151)
ImportOrderIssuesEarly == <<"labels", "issues", "milestones">>

ImportOrder == <<"labels", "milestones", "issues">>

\* where import_metadata goes when the import_* method of phase p returns
AfterPhase(p) ==
    LET i == FirstIndex(ImportOrder, p)
    IN  IF i < Len(ImportOrder) THEN ImportOrder[i + 1] ELSE "summary"

\* load_user_mappings (974-1002): one UserMapping per entry of the file
load_user_mappings(data) ==
    [u \in DOMAIN data |->
        UserMapping(data[u].gitlab_username, data[u].gitlab_id,
                    IF Truthy(data[u].github_username)
                    THEN data[u].github_username ELSE None,
                    data[u].fallback_name)]

EmptyStats == [issue_called |-> FALSE, create_called |-> FALSE]

\* a variant that goes on without the export file
ImportStartIgnoresMissing(exists) == Head(ImportOrder)

\* 1112-1114: where import_metadata goes after the test of export_file.exists()
ImportStart(exists) == IF exists THEN Head(ImportOrder) ELSE "done"

\* a variant that writes the converted records back to the file
FileAfterLoadWritesBack(file, loaded) == [file EXCEPT !.data = loaded]

\* 1121-1122: the export file is opened with mode 'r' and json.load reads it;
\* the conversions of 1125-1139 change the loaded object only
FileAfterLoad(file, loaded) == file

\* 1110-1142: a missing export file ends the run; otherwise the mappings and
\* the snapshot are loaded and a new importer is built
ImportMetadata ==
    /\ pc = "start"
    /\ pc' = ImportStart(exportFile.exists)
    /\ IF ImportStart(exportFile.exists) = "done"
       THEN /\ result' = FALSE
            /\ UNCHANGED <<user_mappings, export_data, rate_limit_warned, exportFile>>
       ELSE /\ user_mappings' = IF mappingFile.exists
                                THEN load_user_mappings(mappingFile.data)
                                ELSE user_mappings
            /\ export_data' = LoadSnapshot(exportFile.data)
            /\ exportFile' = FileAfterLoad(exportFile, LoadSnapshot(exportFile.data))
            /\ rate_limit_warned' = FALSE
            /\ UNCHANGED result
    /\ idx' = 1
    /\ UNCHANGED <<run, returned, cidx, imported_labels, label_failures, imported_milestones,
                   imported_issues, github_issue>>
    /\ UNCHANGED <<attempt, rpc, ret, envVars, obsVars, destVars, mappingFile, summaryFile,
                   exportVars, transferVars, resolverVars, repoVars>>

(***************************************************************************)
(* import_labels (417-462).                                                *)
(***************************************************************************)
\* the first destination call made for a label (433-437): the lookup
FirstLabelCallCreate == "create_label"

FirstLabelCall == "get_label"

\* the for statement: the next label's lookup, or the return of the table
ImportLabelsLoop ==
    /\ pc = "labels"
    /\ IF idx <= Len(export_data.labels)
       THEN /\ pc' = FirstLabelCall
            /\ StartRetry
            /\ UNCHANGED <<idx, returned>>
       ELSE /\ pc' = AfterPhase("labels")
            /\ idx' = 1
            /\ returned' = returned \cup {"import_labels"}
            /\ UNCHANGED <<retryVars, outcomes, sleeps, probes, quota, warned_now>>
    /\ UNCHANGED <<run, user_mappings, result, export_data, stats>>
    /\ UNCHANGED <<cidx, imported_labels, label_failures, imported_milestones, imported_issues, github_issue>>
    /\ UNCHANGED <<envVars, destVars, fileVars, exportVars, transferVars, resolverVars, repoVars>>

\* a variant that takes every failed lookup for "no such label"
IsNotFoundAlways(exc) == TRUE

\* 440-441: a GithubException whose status is 404
IsNotFound(exc) == exc = "404"

\* 438-439: the label exists and is reused
GetLabelFound ==
    /\ pc = "get_label" /\ rpc = "returned"
    /\ imported_labels' = (CurrentName :> ret.val) @@ imported_labels
    /\ UNCHANGED <<stats, label_failures>>
    /\ pc' = "labels"
    /\ idx' = idx + 1
    /\ EndRetry

\* 440-448: 404 from the lookup leads to create_label
GetLabelNotFound ==
    /\ pc = "get_label" /\ rpc = "raised" /\ IsNotFound(ret.exc)
    /\ pc' = "create_label"
    /\ StartRetry
    /\ UNCHANGED <<idx, imported_labels, label_failures, stats>>

\* 451-452, 456-459: any other error fails this label only
GetLabelFailed ==
    /\ pc = "get_label" /\ rpc = "raised" /\ ~IsNotFound(ret.exc)
    /\ label_failures' = Append(label_failures, CurrentName)
    /\ pc' = "labels"
    /\ idx' = idx + 1
    /\ EndRetry
    /\ UNCHANGED <<imported_labels, stats>>

GetLabelReturn ==
    /\ \/ GetLabelFound
       \/ GetLabelNotFound
       \/ GetLabelFailed
    /\ UNCHANGED <<run, user_mappings, result, export_data, returned>>
    /\ UNCHANGED <<cidx, imported_milestones, imported_issues, github_issue>>
    /\ UNCHANGED <<envVars, destVars, fileVars, exportVars, transferVars, resolverVars, repoVars>>

\* 449-450 on return, 456-459 on an exception
CreateLabelReturn ==
    /\ pc = "create_label" /\ RetryDone
    /\ imported_labels' = IF rpc = "returned"
                          THEN (CurrentName :> ret.val) @@ imported_labels
                          ELSE imported_labels
    /\ label_failures' = IF rpc = "returned"
                         THEN label_failures
                         ELSE Append(label_failures, CurrentName)
    /\ pc' = "labels"
    /\ idx' = idx + 1
    /\ EndRetry
    /\ UNCHANGED <<run, user_mappings, result, export_data, returned, stats>>
    /\ UNCHANGED <<cidx, imported_milestones, imported_issues, github_issue>>
    /\ UNCHANGED <<envVars, destVars, fileVars, exportVars, transferVars, resolverVars, repoVars>>

(***************************************************************************)
(* import_milestones (464-516).                                            *)
(***************************************************************************)
ImportMilestonesLoop ==
    /\ pc = "milestones"
    /\ IF idx <= Len(export_data.milestones)
       THEN /\ pc' = "get_milestones"
            /\ StartRetry
            /\ UNCHANGED <<idx, returned>>
       ELSE /\ pc' = AfterPhase("milestones")
            /\ idx' = 1
            /\ returned' = returned \cup {"import_milestones"}
            /\ UNCHANGED <<retryVars, outcomes, sleeps, probes, quota, warned_now>>
    /\ UNCHANGED <<run, user_mappings, result, export_data, stats>>
    /\ UNCHANGED <<cidx, imported_labels, label_failures, imported_milestones, imported_issues, github_issue>>
    /\ UNCHANGED <<envVars, destVars, fileVars, exportVars, transferVars, resolverVars, repoVars>>

\* 481-484: the search of the listed milestones for the title; 0 is None
ExistingMilestone(title) ==
    IF title \in Range(destMilestones) THEN FirstIndex(destMilestones, title) ELSE 0

\* 486-488: found, reused
GetMilestonesFound ==
    /\ pc = "get_milestones" /\ rpc = "returned"
    /\ ExistingMilestone(CurrentName) # 0
    /\ imported_milestones' = (CurrentName :> ExistingMilestone(CurrentName)) @@ imported_milestones
    /\ UNCHANGED stats
    /\ pc' = "milestones"
    /\ idx' = idx + 1
    /\ EndRetry

\* 489-504: not found, create_milestone
GetMilestonesNotFound ==
    /\ pc = "get_milestones" /\ rpc = "returned"
    /\ ExistingMilestone(CurrentName) = 0
    /\ pc' = "create_milestone"
    /\ StartRetry
    /\ UNCHANGED <<idx, imported_milestones, stats>>

\* a variant in which the failure leaves import_milestones and reaches the
\* handler of import_metadata (1162-1165)
GetMilestonesFailedEscapes ==
    /\ pc = "get_milestones" /\ rpc = "raised"
    /\ pc' = "done"
    /\ idx' = idx
    /\ EndRetry
    /\ UNCHANGED <<imported_milestones, stats>>

\* 510-513: the listing failed, this milestone is skipped
GetMilestonesFailed ==
    /\ pc = "get_milestones" /\ rpc = "raised"
    /\ pc' = "milestones"
    /\ idx' = idx + 1
    /\ EndRetry
    /\ UNCHANGED <<imported_milestones, stats>>

GetMilestonesReturn ==
    /\ \/ GetMilestonesFound
       \/ GetMilestonesNotFound
       \/ GetMilestonesFailed
    /\ UNCHANGED <<run, user_mappings, result, export_data, returned>>
    /\ UNCHANGED <<cidx, imported_labels, label_failures, imported_issues, github_issue>>
    /\ UNCHANGED <<envVars, destVars, fileVars, exportVars, transferVars, resolverVars, repoVars>>

\* 505-506 on return, 510-513 on an exception
CreateMilestoneReturn ==
    /\ pc = "create_milestone" /\ RetryDone
    /\ imported_milestones' = IF rpc = "returned"
                              THEN (CurrentName :> ret.val) @@ imported_milestones
                              ELSE imported_milestones
    /\ pc' = "milestones"
    /\ idx' = idx + 1
    /\ EndRetry
    /\ UNCHANGED <<run, user_mappings, result, export_data, returned, stats>>
    /\ UNCHANGED <<cidx, imported_labels, label_failures, imported_issues, github_issue>>
    /\ UNCHANGED <<envVars, destVars, fileVars, exportVars, transferVars, resolverVars, repoVars>>

(***************************************************************************)
(* import_issues (518-588) and import_issue_comments (590-605).            *)
(***************************************************************************)
\* a variant that looks the issue up first and skips one that the
\* repository already holds
ImportIssuesLoopSkipsExisting ==
    /\ pc = "issues"
    /\ IF idx <= Len(IssuesToImport)
       THEN IF \E k \in 1..Len(destIssues) : destIssues[k].gitlab_id = CurrentIssue.id
            THEN /\ pc' = "issues"
                 /\ idx' = idx + 1
                 /\ UNCHANGED <<returned, retryVars, outcomes, sleeps, probes, quota, warned_now>>
            ELSE /\ pc' = "create_issue"
                 /\ StartRetry
                 /\ UNCHANGED <<idx, returned>>
       ELSE /\ pc' = AfterPhase("issues")
            /\ idx' = 1
            /\ returned' = returned \cup {"import_issues"}
            /\ UNCHANGED <<retryVars, outcomes, sleeps, probes, quota, warned_now>>
    /\ UNCHANGED <<run, user_mappings, result, export_data, stats>>
    /\ UNCHANGED <<cidx, imported_labels, label_failures, imported_milestones, imported_issues, github_issue>>
    /\ UNCHANGED <<envVars, destVars, fileVars, exportVars, transferVars, resolverVars, repoVars>>

\* the for statement of 532: the next issue's create_issue, or the return
ImportIssuesLoop ==
    /\ pc = "issues"
    /\ IF idx <= Len(IssuesToImport)
       THEN /\ pc' = "create_issue"
            /\ StartRetry
            /\ UNCHANGED <<idx, returned>>
       ELSE /\ pc' = AfterPhase("issues")
            /\ idx' = 1
            /\ returned' = returned \cup {"import_issues"}
            /\ UNCHANGED <<retryVars, outcomes, sleeps, probes, quota, warned_now>>
    /\ UNCHANGED <<run, user_mappings, result, export_data, stats>>
    /\ UNCHANGED <<cidx, imported_labels, label_failures, imported_milestones, imported_issues, github_issue>>
    /\ UNCHANGED <<envVars, destVars, fileVars, exportVars, transferVars, resolverVars, repoVars>>

\* 557-566 on return (the comments come next), 582-585 on an exception
CreateIssueReturn ==
    /\ pc = "create_issue" /\ RetryDone
    /\ IF rpc = "returned"
       THEN /\ github_issue' = ret.val
            /\ cidx' = 1
            /\ pc' = "comments"
            /\ idx' = idx
       ELSE /\ pc' = "issues"
            /\ idx' = idx + 1
            /\ UNCHANGED <<github_issue, cidx>>
    /\ EndRetry
    /\ UNCHANGED <<run, user_mappings, result, export_data, returned, stats>>
    /\ UNCHANGED <<imported_labels, label_failures, imported_milestones, imported_issues>>
    /\ UNCHANGED <<envVars, destVars, fileVars, exportVars, transferVars, resolverVars, repoVars>>

\* 572-577
CorrelationRecord ==
    [gitlab_id |-> CurrentIssue.id, gitlab_iid |-> CurrentIssue.iid,
     github_number |-> github_issue, github_url |-> github_issue]

\* the for statement of import_issue_comments; after the last comment
\* import_issues closes a closed issue (569-570) or records the issue (572-580)
ImportCommentsLoop ==
    /\ pc = "comments"
    /\ IF cidx <= Len(CurrentIssue.comments)
       THEN /\ pc' = "create_comment"
            /\ StartRetry
            /\ UNCHANGED <<idx, imported_issues>>
       ELSE IF ClosesAfterComments(CurrentIssue)
            THEN /\ pc' = "edit"
                 /\ StartRetry
                 /\ UNCHANGED <<idx, imported_issues>>
            ELSE /\ imported_issues' = Append(imported_issues, CorrelationRecord)
                 /\ pc' = "issues"
                 /\ idx' = idx + 1
                 /\ UNCHANGED <<retryVars, outcomes, sleeps, probes, quota, warned_now>>
    /\ UNCHANGED <<run, user_mappings, result, export_data, returned, stats>>
    /\ UNCHANGED <<cidx, imported_labels, label_failures, imported_milestones, github_issue>>
    /\ UNCHANGED <<envVars, destVars, fileVars, exportVars, transferVars, resolverVars, repoVars>>

\* 602-605: a comment that failed is reported and the loop goes on
CreateCommentReturn ==
    /\ pc = "create_comment" /\ RetryDone
    /\ cidx' = cidx + 1
    /\ pc' = "comments"
    /\ EndRetry
    /\ UNCHANGED <<run, user_mappings, result, export_data, returned, stats>>
    /\ UNCHANGED <<idx, imported_labels, label_failures, imported_milestones, imported_issues, github_issue>>
    /\ UNCHANGED <<envVars, destVars, fileVars, exportVars, transferVars, resolverVars, repoVars>>

\* 570-580 on return; on an exception the handler of 582-585 skips the record
EditReturn ==
    /\ pc = "edit" /\ RetryDone
    /\ imported_issues' = IF rpc = "returned"
                          THEN Append(imported_issues, CorrelationRecord)
                          ELSE imported_issues
    /\ pc' = "issues"
    /\ idx' = idx + 1
    /\ EndRetry
    /\ UNCHANGED <<run, user_mappings, result, export_data, returned, stats>>
    /\ UNCHANGED <<cidx, imported_labels, label_failures, imported_milestones, github_issue>>
    /\ UNCHANGED <<envVars, destVars, fileVars, exportVars, transferVars, resolverVars, repoVars>>

\* create_import_summary (1167-1197): import_summary.txt is opened with mode
\* 'w' and reports the three counts it is called with
create_import_summary(issues_count, labels_count, milestones_count) ==
    [exists |-> TRUE, issues |-> issues_count, labels |-> labels_count,
     milestones |-> milestones_count]

\* 1153-1160: the summary is written and import_metadata returns True
ImportSummary ==
    /\ pc = "summary"
    /\ pc' = "done"
    /\ result' = TRUE
    /\ summaryFile' = create_import_summary(Len(imported_issues),
                                            Cardinality(DOMAIN imported_labels),
                                            Cardinality(DOMAIN imported_milestones))
    /\ UNCHANGED <<run, user_mappings, export_data, returned>>
    /\ UNCHANGED <<loopVars, retryVars, envVars, obsVars, destVars, exportFile, mappingFile,
                   exportVars, transferVars, resolverVars, repoVars>>

\* the operator runs the import again on the same export directory and the
\* same destination: a new tool and a new importer
Rerun ==
    /\ pc = "done"
    /\ run < MaxRuns
    /\ run' = run + 1
    /\ pc' = "start"
    /\ result' = FALSE
    /\ user_mappings' = EmptyMap
    /\ export_data' = EmptySnapshot
    /\ returned' = {}
    /\ idx' = 1
    /\ cidx' = 1
    /\ imported_labels' = EmptyMap
    /\ label_failures' = <<>>
    /\ imported_milestones' = EmptyMap
    /\ imported_issues' = <<>>
    /\ github_issue' = 0
    /\ rate_limit_warned' = FALSE
    /\ warned_now' = FALSE
    /\ quota' = -1
    /\ stats' = EmptyStats
    /\ UNCHANGED <<attempt, rpc, ret, outcomes, sleeps, probes>>
    /\ UNCHANGED <<envVars, destVars, fileVars, exportVars, transferVars, resolverVars, repoVars>>

\* no project or repository handle yet (612-615); `commits` is what
\* get_commits of the repository answers
NoHandle == [found |-> FALSE, name |-> <<>>]
NoRepo == [found |-> FALSE, name |-> <<>>, commits |-> 0]

NoCheck == [check |-> "", result |-> "", style |-> "", counts |-> <<>>]

\* no temporary directory (34, before 582) and no GitHub repository
NoTempDir == [exists |-> FALSE, branches |-> <<>>]
NoDestRepo == [exists |-> FALSE, owner |-> "", name |-> "", branches |-> <<>>, tags |-> FALSE]
NoSrcRepo == [name |-> "", branches |-> <<>>, tags |-> FALSE]

\* transfer_repository is not running
RepoIdle ==
    /\ gpc = "idle"
    /\ gt_dry_run = FALSE
    /\ github_org = ""
    /\ new_repo_name = ""
    /\ srcRepo = NoSrcRepo
    /\ gt_project = "None"
    /\ temp_dir = "None"
    /\ repo_clone = "None"
    /\ tempDir = NoTempDir
    /\ gt_github_repo = "None"
    /\ destRepo = NoDestRepo
    /\ reported_dir = "None"
    /\ gt_result = "pending"
    /\ gt_steps = <<>>

\* resolve_github_username is not being followed
ResolverIdle ==
    /\ resolve_arg = Bob
    /\ resolve_ret = <<>>

\* transfer_metadata is not running
TransferIdle ==
    /\ tpc = "idle"
    /\ dry_run = FALSE
    /\ gitlab_client = "None"
    /\ github_client = "None"
    /\ gitlab_project = NoHandle
    /\ github_repo = NoRepo
    /\ validation_results = <<>>
    /\ has_blocking_errors = FALSE
    /\ has_warnings = FALSE
    /\ asked = FALSE
    /\ proceed = FALSE
    /\ validation = "pending"
    /\ metadata_check = NoCheck
    /\ transfer_result = "pending"

\* export_metadata is not running
ExportIdle ==
    /\ srcProject = EmptyProject
    /\ epc = "idle"
    /\ eidx = 1
    /\ user_cache = EmptyMap
    /\ users_get = <<>>
    /\ ex_issues = <<>>
    /\ ex_merge_requests = <<>>
    /\ ex_labels = <<>>
    /\ ex_milestones = <<>>
    /\ all_users = {}
    /\ export_result = FALSE

Init ==
    /\ ExportIdle
    /\ TransferIdle
    /\ ResolverIdle
    /\ RepoIdle
    /\ \E d \in DestStates :
          /\ destLabels = d.labels
          /\ destMilestones = d.milestones
    /\ destIssues = <<>>
    /\ exportFile \in ExportFiles
    /\ mappingFile \in MappingFiles
    /\ summaryFile = NoSummary
    /\ pc = "start"
    /\ run = 1
    /\ user_mappings = EmptyMap
    /\ result = FALSE
    /\ export_data = EmptySnapshot
    /\ returned = {}
    /\ idx = 1
    /\ cidx = 1
    /\ imported_labels = EmptyMap
    /\ label_failures = <<>>
    /\ imported_milestones = EmptyMap
    /\ imported_issues = <<>>
    /\ github_issue = 0
    /\ rate_limit_warned = FALSE
    /\ attempt = 0
    /\ rpc = "idle"
    /\ ret = [val |-> 0, exc |-> None]
    /\ anomaliesLeft = MaxAnomalies
    /\ faulted = FALSE
    /\ outcomes = <<>>
    /\ sleeps = <<>>
    /\ probes = <<>>
    /\ quota = -1
    /\ warned_now = FALSE
    /\ stats = EmptyStats

Next ==
    \/ ImportMetadata
    \/ CheckRateLimit
    \/ CallReturns
    \/ CallRaisesNotFound
    \/ CallRaisesFault
    \/ ImportLabelsLoop
    \/ GetLabelReturn
    \/ CreateLabelReturn
    \/ ImportMilestonesLoop
    \/ GetMilestonesReturn
    \/ CreateMilestoneReturn
    \/ ImportIssuesLoop
    \/ CreateIssueReturn
    \/ ImportCommentsLoop
    \/ CreateCommentReturn
    \/ EditReturn
    \/ ImportSummary
    \/ Rerun

Spec == Init /\ [][Next]_vars

\* get_rate_limit answers or raises and time.sleep returns after the finite
\* time it was given (370), so a pending step of check_rate_limit is taken
InitFair ==
    /\ Init
    /\ mappingFile = NoMappingFile
    /\ exportFile.exists
    /\ exportFile.data.labels = <<"bug", "ui">>
    /\ exportFile.data.milestones = <<"v1">>
    /\ exportFile.data.issues # <<>>

SpecFair == InitFair /\ [][Next]_vars /\ WF_vars(CheckRateLimit)

(***************************************************************************)
(* Properties of the import.                                               *)
(***************************************************************************)
NoDuplicates(s) == \A i, j \in 1..Len(s) : s[i] = s[j] => i = j

\* seconds of the sleeps retry_with_backoff itself made in this call
BackoffSleeps ==
    LET own(e) == e.by = "retry_with_backoff"
        picked == SelectSeq(sleeps, own)
    IN  [i \in 1..Len(picked) |-> picked[i].secs]

\* sleeps check_rate_limit made in the current attempt
RateWaits ==
    LET own(e) == e.by = "check_rate_limit" /\ e.attempt = attempt
    IN  SelectSeq(sleeps, own)

ZeroProbes == {i \in 1..Len(probes) : probes[i] = 0}

\* remaining reported by the latest probe of this attempt that answered; -1 if none
LastGoodProbe ==
    LET good == {i \in 1..Len(probes) : probes[i] >= 0}
    IN  IF good = {} THEN -1
        ELSE probes[CHOOSE i \in good : \A j \in good : j <= i]

LabelMilestoneOps == {"get_label", "create_label", "get_milestones", "create_milestone"}

\* C1: no create_issue call is issued until import_labels and
\* import_milestones have both returned, and no label or milestone call of
\* the run comes after a create_issue call, whatever items failed.
C1_IssuesAfterLabelsAndMilestones ==
    /\ (rpc = "call" /\ pc = "create_issue") =>
          {"import_labels", "import_milestones"} \subseteq returned
    /\ (rpc = "call" /\ pc \in LabelMilestoneOps) => ~stats.issue_called

\* create_issue is about to be invoked after a label failed to import
C1_Witness ==
    /\ rpc = "call" /\ pc = "create_issue"
    /\ DOMAIN imported_labels # Range(export_data.labels)

\* C2: when import runs again with the same lists on the same destination
\* and no destination call failed, the destination holds exactly one label
\* and one milestone per unique name, and the later run found every item
\* (every name is in its table) without invoking create_label or
\* create_milestone.
C2_SecondImportCreatesNothing ==
    (pc = "done" /\ run >= 2 /\ result /\ ~faulted) =>
        /\ NoDuplicates(destLabels)
        /\ NoDuplicates(destMilestones)
        /\ Range(export_data.labels) \subseteq Range(destLabels)
        /\ Range(export_data.milestones) \subseteq Range(destMilestones)
        /\ DOMAIN imported_labels = Range(export_data.labels)
        /\ DOMAIN imported_milestones = Range(export_data.milestones)
        /\ ~stats.create_called

\* a second run of a list with a repeated name and a milestone has finished
C2_Witness ==
    /\ pc = "done" /\ run = 2 /\ result /\ ~faulted
    /\ export_data.labels = <<"bug", "bug">>
    /\ export_data.milestones = <<"v1">>
    /\ Len(destIssues) = 4

\* the snapshot issue a destination issue was created from
SourceIssue(d) ==
    CHOOSE s \in Range(LoadSnapshot(exportFile.data).issues) : s.id = d.gitlab_id

\* the destination username the mapping file gives for a source user, or ""
MappedUsername(u) ==
    IF mappingFile.exists /\ u.gitlab_username \in DOMAIN mappingFile.data
    THEN mappingFile.data[u.gitlab_username].github_username
    ELSE ""

\* C3: when the mapping file gives a destination username for source user U,
\* every issue and comment of U that the import creates carries the
\* '@<destination username>' mention in its footer.
C3_MappingAppliedAtImport ==
    \A n \in 1..Len(destIssues) :
        LET d == destIssues[n]
            s == SourceIssue(d)
        IN  /\ MappedUsername(s.author) # "" =>
                  d.body.footer.by = <<"@", MappedUsername(s.author)>>
            /\ \A k \in 1..Len(d.comments) :
                  \A c \in Range(s.comments) :
                      (c.id = d.comments[k].id /\ MappedUsername(c.author) # "") =>
                          d.comments[k].footer.by = <<"@", MappedUsername(c.author)>>

\* C4: import_issues returns exactly one correlation record for every issue
\* whose create_issue call succeeded in this run.
C4_EveryCreatedIssueRecorded ==
    "import_issues" \in returned =>
        \A n \in 1..Len(destIssues) :
            destIssues[n].run = run =>
                Cardinality({k \in 1..Len(imported_issues) :
                                imported_issues[k].github_number = n}) = 1

\* C6: the call is never invoked again after it succeeded; when it failed on
\* attempts 1 and 2 and succeeded on attempt 3 it was invoked 3 times,
\* retry_with_backoff slept exactly twice, 2 then 4 seconds, and returned the
\* third attempt's result.
C6_BackoffSchedule ==
    /\ \A i \in 1..(Len(outcomes) - 1) : outcomes[i] # "ok"
    /\ (Len(outcomes) >= 3 /\ outcomes[1] # "ok" /\ outcomes[2] # "ok" /\ outcomes[3] = "ok") =>
          /\ Len(outcomes) = 3
          /\ rpc = "returned"
          /\ BackoffSleeps = <<2, 4>>
          /\ ret.exc = None
          /\ pc = "create_label" => ret.val = Len(destLabels) /\ destLabels[ret.val] = CurrentName
          /\ pc = "create_issue" => ret.val = Len(destIssues)
                                    /\ destIssues[ret.val].gitlab_id = CurrentIssue.id

\* create_issue has returned on its third attempt
C6_Witness ==
    /\ rpc = "returned" /\ pc = "create_issue"
    /\ Len(outcomes) = 3 /\ outcomes[3] = "ok"

\* C7: when the call fails on all MAX_RETRY_ATTEMPTS attempts there is no
\* further attempt, retry_with_backoff has slept only after attempts 1 and 2,
\* and the last exception is raised to the caller.
C7_RetryExhaustion ==
    /\ Len(outcomes) <= MAX_RETRY_ATTEMPTS
    /\ (Len(outcomes) = MAX_RETRY_ATTEMPTS /\ \A i \in 1..Len(outcomes) : outcomes[i] # "ok") =>
          /\ rpc = "raised"
          /\ ret.exc = outcomes[MAX_RETRY_ATTEMPTS]
          /\ Len(BackoffSleeps) = MAX_RETRY_ATTEMPTS - 1
          /\ \A i \in 1..Len(sleeps) :
                sleeps[i].by = "retry_with_backoff" => sleeps[i].attempt < MAX_RETRY_ATTEMPTS - 1

\* the close call of an issue has failed three times with transient errors
C7_Witness ==
    /\ rpc = "raised" /\ pc = "edit"
    /\ Len(outcomes) = MAX_RETRY_ATTEMPTS

\* a step in which check_rate_limit got an answer from its probe
ProbeAnswered == Len(probes') = Len(probes) + 1 /\ probes'[Len(probes')] >= 0

LowNotZero(remaining) == remaining > 0 /\ remaining < RATE_LIMIT_BUFFER

\* C8: the warning flag is reset when a probe observes recovered quota, so a
\* probe that sees low quota right after one that saw recovered quota prints
\* the warning.
C8_WarnAgainAfterRecovery ==
    [][(ProbeAnswered /\ quota >= RATE_LIMIT_BUFFER /\ quota' < RATE_LIMIT_BUFFER)
          => warned_now']_vars

\* C9: a probe that sees 0 < remaining < RATE_LIMIT_BUFFER returns to the
\* caller without sleeping, and prints no warning when the probe before it
\* saw such a value too.
C9_WarnOncePerLowEpisode ==
    [][(ProbeAnswered /\ LowNotZero(quota')) =>
          /\ sleeps' = sleeps
          /\ rpc' = "call"
          /\ LowNotZero(quota) => ~warned_now']_vars

\* the second of two probes that saw low quota has returned without a warning
C9_Witness ==
    /\ rpc = "call" /\ probes # <<>> /\ LowNotZero(probes[Len(probes)])
    /\ rate_limit_warned /\ ~warned_now

\* C10 as claimed: the call is not invoked while the latest probe of the
\* attempt that answered reported remaining == 0.
C10_NoCallAfterZeroQuota ==
    rpc = "call" => LastGoodProbe # 0

\* C10 amended: a probe that reports remaining == 0 is followed by a sleep of
\* max(reset - now + 10, 0) seconds and another probe, so the call is invoked
\* only after a probe that reported remaining > 0 or that raised.
C10_ReprobeAfterZeroQuota ==
    /\ rpc = "call" => probes # <<>> /\ probes[Len(probes)] # 0
    /\ (rpc \in {"probe", "call"}) =>
          /\ Len(RateWaits) = Cardinality(ZeroProbes)
          /\ \A i \in 1..Len(RateWaits) :
                RateWaits[i].secs \in {WaitTime(d) : d \in ResetDeltas}
    /\ (rpc = "probe" /\ probes # <<>>) => probes[Len(probes)] = 0

\* the call is about to be invoked in an attempt whose first probe saw no quota
C10_Witness ==
    /\ rpc = "call" /\ probes # <<>> /\ probes[1] = 0 /\ Len(RateWaits) > 0

\* C15 as stated: whenever create_issue is invoked, every label and the
\* milestone the issue references are keys of imported_labels and
\* imported_milestones.
C15_ReferencesInTablesAtCreate ==
    (rpc = "call" /\ pc = "create_issue") =>
        /\ Range(CurrentIssue.labels) \subseteq DOMAIN imported_labels
        /\ CurrentIssue.milestone # None =>
              CurrentIssue.milestone \in DOMAIN imported_milestones

\* the import_* loops of this run are past the milestones
TablesBuilt == {"import_labels", "import_milestones"} \subseteq returned

\* C15 (amended): create_issue is invoked only when import_labels and
\* import_milestones have returned; the issue is created with exactly the
\* handles of those referenced label names that are keys of imported_labels,
\* each naming a destination label of that name, and with the handle of its
\* milestone when the title is a key of imported_milestones and no milestone
\* otherwise; a referenced name that is not in its table is left out and the
\* issue is created all the same.
C15_ResolvedReferencesOnly ==
    /\ (rpc = "call" /\ pc = "create_issue") => TablesBuilt
    /\ \A n \in 1..Len(destIssues) :
          (destIssues[n].run = run) =>
             LET d == destIssues[n]
                 src == SourceIssue(d)
                 known == {L \in Range(src.labels) : L \in DOMAIN imported_labels}
             IN  /\ TablesBuilt
                 /\ Range(d.labels) = {imported_labels[L] : L \in known}
                 /\ \A L \in known : destLabels[imported_labels[L]] = L
                 /\ IF src.milestone \in DOMAIN imported_milestones
                    THEN /\ d.milestone = imported_milestones[src.milestone]
                         /\ destMilestones[d.milestone] = src.milestone
                    ELSE d.milestone = 0

\* an issue referencing "bug", "wontfix" and milestone "v1" was created with
\* the handle of "bug" only: "wontfix" and "v1" are in no table
C15_Witness ==
    \E n \in 1..Len(destIssues) :
        /\ destIssues[n].run = run
        /\ destIssues[n].gitlab_id = 101
        /\ "bug" \in DOMAIN imported_labels
        /\ "wontfix" \notin DOMAIN imported_labels
        /\ "v1" \notin DOMAIN imported_milestones
        /\ Len(destIssues[n].labels) = 1
        /\ destIssues[n].milestone = 0

\* each extracted snapshot with the file export_metadata writes for it
WrittenSnapshots ==
    {[snapshot |-> s, file |-> SnapshotFile(s)] : s \in Snapshots}

\* import_metadata has loaded the snapshot file of this run
SnapshotLoaded == pc \notin {"idle", "start"} /\ exportFile.exists

\* C16: the lists import_metadata rebuilds from the snapshot file equal the
\* extracted lists the file was written from, record by record and field by
\* field: authors and assignees are UserMapping instances again, and the
\* comment lists are the same dicts in the same order.
C16_SnapshotRoundTrip ==
    SnapshotLoaded =>
        \E w \in WrittenSnapshots :
            /\ export_data.issues = w.snapshot.issues
            /\ export_data.merge_requests = w.snapshot.merge_requests
            /\ exportFile.data = w.file
            /\ \A i \in Range(export_data.issues) \cup Range(export_data.merge_requests) :
                  i.author.class = "UserMapping"

\* a snapshot with issues (an assignee, two comments, a milestone and none) or
\* with change requests (an assignee and none) has been loaded
C16_Witness ==
    /\ SnapshotLoaded
    /\ \/ /\ Len(export_data.issues) = 2
          /\ export_data.issues[1].assignees = <<Bob>>
          /\ Len(export_data.issues[1].comments) = 2
          /\ export_data.issues[2].milestone = None
       \/ /\ Len(export_data.merge_requests) = 2
          /\ export_data.merge_requests[1].assignee = <<Alice>>
          /\ export_data.merge_requests[2].assignee = <<>>

\* retry_with_backoff has raised an error that fails the current item (a 404
\* from get_label only leads to create_label)
ItemFailed ==
    rpc = "raised" /\ ~(pc = "get_label" /\ ret.exc = "404")

\* the list the loop at position p iterates over
LoopList(p) ==
    CASE p = "labels" -> export_data.labels
      [] p = "milestones" -> export_data.milestones
      [] p = "issues" -> export_data.issues

\* C13: a destination call that fails for one label, milestone, issue or
\* comment never leaves the loop it was made in: the next step is the loop
\* statement at the following item, a loop is left only after its last item,
\* and import_metadata returns True whenever the export file exists.
C13_ItemFailureIsolated ==
    [][/\ (ItemFailed /\ pc \in {"get_label", "create_label"}) =>
             (pc' = "labels" /\ idx' = idx + 1)
       /\ (ItemFailed /\ pc \in {"get_milestones", "create_milestone"}) =>
             (pc' = "milestones" /\ idx' = idx + 1)
       /\ (ItemFailed /\ pc \in {"create_issue", "edit"}) =>
             (pc' = "issues" /\ idx' = idx + 1)
       /\ (ItemFailed /\ pc = "create_comment") =>
             (pc' = "comments" /\ cidx' = cidx + 1 /\ idx' = idx)
       /\ (pc \in {"labels", "milestones", "issues"}
              /\ pc' \in {"labels", "milestones", "issues", "summary"} /\ pc' # pc) =>
             (idx = Len(LoopList(pc)) + 1 /\ idx' = 1)
       /\ (pc # "done" /\ pc' = "done" /\ exportFile.exists) =>
             (result' /\ returned' = {"import_labels", "import_milestones", "import_issues"})
      ]_vars

\* the first label failed for good, the second one was still imported and
\* the run returned True
C13_Witness ==
    /\ pc = "done" /\ run = 1 /\ result /\ faulted
    /\ export_data.labels = <<"bug", "ui">>
    /\ "bug" \notin DOMAIN imported_labels
    /\ "ui" \in DOMAIN imported_labels
    /\ "ui" \in Range(destLabels)

\* C22: an issue whose snapshot state is 'closed' is closed by an edit call of
\* its own, made on the issue create_issue returned and after that call; the
\* edit is what import_issues does after the comments of a closed issue and
\* never for another issue, and nothing else changes the state of an issue.
C22_ClosedIssuesClosedByFollowUp ==
    [][/\ (pc = "create_issue" /\ rpc = "returned") => pc' = "comments"
       /\ (pc = "comments" /\ pc' \notin {"comments", "create_comment"}) =>
             ((pc' = "edit") <=> (CurrentIssue.state = "closed"))
       /\ (pc # "edit" /\ pc' = "edit") =>
             /\ pc = "comments"
             /\ github_issue = Len(destIssues)
             /\ destIssues[github_issue].gitlab_id = CurrentIssue.id
             /\ destIssues[github_issue].state = "open"
       /\ (pc = "edit" /\ pc' # "edit") => Len(outcomes) >= 1
       /\ \A k \in 1..Len(destIssues) :
             destIssues'[k].state # destIssues[k].state =>
                /\ pc = "edit" /\ rpc = "call"
                /\ k = github_issue
                /\ CurrentIssue.state = "closed"
                /\ destIssues'[k].state = "closed"
      ]_vars

\* a closed and an open issue were imported: the first was closed by its
\* edit, the second was left open
C22_Witness ==
    /\ pc = "done" /\ run = 1
    /\ Len(destIssues) = 2
    /\ destIssues[1].gitlab_id = IssueA.id /\ destIssues[1].state = "closed"
    /\ destIssues[2].gitlab_id = IssueB.id /\ destIssues[2].state = "open"

RECURSIVE IsSubSeq(_, _)
\* a is b with some elements left out
IsSubSeq(a, b) ==
    IF a = <<>> THEN TRUE
    ELSE IF b = <<>> THEN FALSE
    ELSE IF Head(a) = Head(b) THEN IsSubSeq(Tail(a), Tail(b))
    ELSE IsSubSeq(a, Tail(b))

\* the record of the snapshot file a destination issue was created from
FileIssue(d) ==
    CHOOSE s \in Range(exportFile.data.issues) : s.id = d.gitlab_id

\* the destination issues created by run r, in creation order
IssuesOfRun(r) ==
    LET mine(d) == d.run = r
    IN  SelectSeq(destIssues, mine)

\* C23: items are processed one after the other.  Every destination call for
\* an issue (its creation, its comments in snapshot order, its closing) is
\* made on the issue created last, so before create_issue of the next
\* snapshot issue; the issues of a run are created in snapshot order; and a
\* comment is only ever created on the destination issue of its own parent.
C23_OneIssueAtATime ==
    /\ [](/\ \A k \in 1..Len(destIssues) :
                IsSubSeq(Ids(destIssues[k].comments),
                         Ids(FileIssue(destIssues[k]).comments))
          /\ \A r \in 1..run :
                IsSubSeq([k \in 1..Len(IssuesOfRun(r)) |-> IssuesOfRun(r)[k].gitlab_id],
                         Ids(exportFile.data.issues)))
    /\ [][/\ Len(destIssues') # Len(destIssues) =>
                /\ pc = "create_issue" /\ rpc = "call"
                /\ destIssues' = Append(destIssues, destIssues'[Len(destIssues')])
                /\ destIssues'[Len(destIssues')].gitlab_id = CurrentIssue.id
                /\ destIssues'[Len(destIssues')].comments = <<>>
          /\ \A k \in 1..Len(destIssues) :
                destIssues'[k] # destIssues[k] =>
                   /\ k = Len(destIssues)
                   /\ k = github_issue
                   /\ destIssues[k].gitlab_id = CurrentIssue.id
                   /\ pc \in {"create_comment", "edit"} /\ rpc = "call"
                   /\ pc = "create_comment" =>
                         /\ destIssues[k].state = "open"
                         /\ destIssues'[k] =
                               [destIssues[k] EXCEPT !.comments =
                                   Append(@, CommentBody(CurrentIssue.comments[cidx]))]
                   /\ pc = "edit" => cidx = Len(CurrentIssue.comments) + 1
         ]_vars

\* both issues of the snapshot were imported with all their comments, in order
C23_Witness ==
    /\ pc = "done" /\ run = 1
    /\ Len(destIssues) = 2
    /\ Ids(destIssues[1].comments) = <<11, 12>>
    /\ Ids(destIssues[2].comments) = <<13>>
    /\ destIssues[1].state = "closed"

\* C24: creation has no idempotency key.  When no destination call failed,
\* every completed run of the import on the same snapshot has created each of
\* its N issues, and each of their comments, once more: after r runs the
\* repository holds r * N issues.
C24_RerunDuplicatesIssues ==
    (pc = "done" /\ ~faulted /\ exportFile.exists) =>
        LET issues == LoadSnapshot(exportFile.data).issues
        IN  /\ Len(destIssues) = run * Len(issues)
            /\ \A r \in 1..run :
                  [k \in 1..Len(IssuesOfRun(r)) |-> IssuesOfRun(r)[k].gitlab_id] = Ids(issues)
            /\ \A k \in 1..Len(destIssues) :
                  Ids(destIssues[k].comments) = Ids(SourceIssue(destIssues[k]).comments)

\* the second run is over and every issue is there twice
C24_Witness ==
    /\ pc = "done" /\ run = 2 /\ ~faulted
    /\ Len(destIssues) = 4
    /\ destIssues[1].gitlab_id = destIssues[3].gitlab_id
    /\ destIssues[1].comments = destIssues[3].comments
    /\ Len(destIssues[3].comments) = 2

\* C25: the labels create_issue is given are the table entries of the issue's
\* label names that are keys of imported_labels, in the order the issue lists
\* them, the other names being left out; the milestone is the table entry of
\* the issue's milestone title when the title is a key of
\* imported_milestones, and none otherwise.  A name left out does not keep the
\* issue from being created.
C25_NameBasedResolution ==
    [][Len(destIssues') = Len(destIssues) + 1 =>
          LET created == destIssues'[Len(destIssues')]
              InTable(name) == name \in DOMAIN imported_labels
              kept == SelectSeq(CurrentIssue.labels, InTable)
          IN  /\ pc = "create_issue"
              /\ created.gitlab_id = CurrentIssue.id
              /\ created.labels = [i \in 1..Len(kept) |-> imported_labels[kept[i]]]
              /\ created.milestone =
                    IF CurrentIssue.milestone \in DOMAIN imported_milestones
                    THEN imported_milestones[CurrentIssue.milestone]
                    ELSE 0
      ]_vars

\* "ui" was created after "bug" and the issue lists it first; the other
\* issue's "wontfix" is in no table and its milestone could not be imported
C25_Witness ==
    /\ Len(destIssues) = 2
    /\ imported_labels = ("bug" :> 1) @@ ("ui" :> 2)
    /\ destIssues[2].gitlab_id = IssueB.id /\ destIssues[2].labels = <<2, 1>>
    /\ destIssues[1].gitlab_id = IssueA.id /\ destIssues[1].labels = <<1>>
    /\ "v1" \in Range(export_data.milestones)
    /\ "v1" \notin DOMAIN imported_milestones
    /\ destIssues[1].milestone = 0

\* the destination calls of the importer
DestinationCalls ==
    {"get_label", "create_label", "get_milestones", "create_milestone",
     "create_issue", "create_comment", "edit"}

\* C28: every destination call of the importer is made by retry_with_backoff:
\* the importer reaches a call only by entering retry_with_backoff, which
\* starts with a probe; a call is invoked, and the destination changed, only
\* as the invocation of an attempt, one per attempt, and only after a
\* check_rate_limit of that attempt has returned.
C28_CallsGoThroughRetry ==
    [][/\ (pc' \in DestinationCalls /\ pc' # pc) =>
             (rpc' = "probe" /\ attempt' = 0 /\ outcomes' = <<>> /\ probes' = <<>>)
       /\ (rpc # "call" /\ rpc' = "call") =>
             (rpc = "probe" /\ Len(probes') = Len(probes) + 1)
       /\ Len(outcomes') = Len(outcomes) + 1 =>
             /\ pc \in DestinationCalls
             /\ rpc = "call"
             /\ attempt < MAX_RETRY_ATTEMPTS /\ Len(outcomes) = attempt
             /\ probes # <<>> /\ probes[Len(probes)] # 0
       /\ destVars' # destVars =>
             /\ Len(outcomes') = Len(outcomes) + 1
             /\ outcomes'[Len(outcomes')] = "ok"
      ]_vars

\* the closing edit went through on the second attempt, after that attempt's
\* own probe
C28_Witness ==
    /\ pc = "edit" /\ rpc = "returned"
    /\ attempt = 1 /\ Len(outcomes) = 2
    /\ probes # <<>>
    /\ destIssues[github_issue].state = "closed"

\* C29: a 404 from the lookup of a label is the signal to create it: the
\* importer goes on to create_label for that name, and when the creation
\* succeeds the label is in the table and is not reported as failed.  Any
\* other error of the lookup skips the label: it is reported, it is not in
\* the table, and create_label is not called for it.  create_label is called
\* after a 404 and never otherwise.
C29_NotFoundLeadsToCreate ==
    [][/\ (pc = "get_label" /\ rpc = "raised" /\ ret.exc = "404") =>
             /\ pc' = "create_label" /\ rpc' = "probe"
             /\ idx' = idx
             /\ label_failures' = label_failures
       /\ (pc = "get_label" /\ rpc = "raised" /\ ret.exc # "404") =>
             /\ pc' = "labels" /\ idx' = idx + 1
             /\ imported_labels' = imported_labels
             /\ label_failures' = Append(label_failures, export_data.labels[idx])
       /\ (pc # "create_label" /\ pc' = "create_label") =>
             (pc = "get_label" /\ rpc = "raised" /\ ret.exc = "404")
       /\ (pc = "create_label" /\ rpc = "returned") =>
             /\ export_data.labels[idx] \in DOMAIN imported_labels'
             /\ destLabels[imported_labels'[export_data.labels[idx]]] = export_data.labels[idx]
             /\ label_failures' = label_failures
             /\ pc' = "labels" /\ idx' = idx + 1
      ]_vars

\* "ui" was not in the repository: it was created after the 404 and is in the
\* returned table, while the lookup of "bug" failed otherwise and was skipped
C29_Witness ==
    /\ "import_labels" \in returned /\ run = 1
    /\ export_data.labels = <<"bug", "ui">>
    /\ label_failures = <<"bug">>
    /\ DOMAIN imported_labels = {"ui"}
    /\ destLabels[imported_labels["ui"]] = "ui"
    /\ destLabels = <<"bug", "ui">>

C31_ImportNeverMutatesSnapshot ==
    [][exportFile' = exportFile]_vars

\* an import that loaded a snapshot with issues has ended after a call failed
\* and issues were created
C31_Witness ==
    /\ pc = "done" /\ result
    /\ faulted
    /\ Len(destIssues) > 0
    /\ exportFile \in {[exists |-> TRUE, data |-> w.file] : w \in WrittenSnapshots}

\* C32: when metadata_export.json does not exist at the start of
\* import_metadata, the method returns False in that step, with no
\* destination call begun, the destination and the files as they were and no
\* import summary; transfer_metadata then returns False.
C32_MissingSnapshotAborts ==
    /\ [][(pc = "start" /\ ~exportFile.exists) =>
             /\ pc' = "done" /\ result' = FALSE
             /\ rpc' = "idle"
             /\ UNCHANGED <<destVars, fileVars, stats, probes, outcomes>>]_vars
    /\ []((tpc = "done" /\ pc = "done" /\ ~exportFile.exists) =>
             /\ transfer_result = "False"
             /\ summaryFile = NoSummary
             /\ stats = EmptyStats)

\* a transfer whose export succeeded has ended with False: the export file
\* was gone when import_metadata started
C32_Witness ==
    /\ tpc = "done" /\ pc = "done"
    /\ export_result
    /\ ~exportFile.exists
    /\ ~result
    /\ transfer_result = "False"


\* C35: the wait of check_rate_limit ends.  Every sleep of check_rate_limit
\* lasts max(reset - now + 10, 0) seconds, which is not negative; a step of
\* check_rate_limit either probes again, after a probe that observed 0 and
\* one sleep, or returns to retry_with_backoff, which invokes the call (it
\* never raises); and since a later probe observes more than 0 or fails (the
\* quota is reported as 0 a bounded number of times) check_rate_limit returns.
C35_RateLimitWaitTerminates ==
    /\ [](\A k \in 1..Len(sleeps) :
            sleeps[k].by = "check_rate_limit" =>
               /\ sleeps[k].secs \in {Max(d + 10, 0) : d \in ResetDeltas}
               /\ sleeps[k].secs >= 0)
    /\ [][rpc = "probe" =>
             /\ rpc' \in {"probe", "call"}
             /\ rpc' = "probe" =>
                   /\ probes' = Append(probes, 0)
                   /\ Len(sleeps') = Len(sleeps) + 1
                   /\ sleeps'[Len(sleeps')].by = "check_rate_limit"]_vars
    /\ (rpc = "probe") ~> (rpc = "call")

\* check_rate_limit has returned after two probes that observed 0, one with
\* the reset in the past (sleep of 0) and one with the reset ahead (40)
C35_Witness ==
    /\ rpc = "call"
    /\ Len(probes) = 3
    /\ probes[1] = 0 /\ probes[2] = 0 /\ probes[3] # 0
    /\ \E a, b \in 1..Len(sleeps) :
          /\ sleeps[a].by = "check_rate_limit" /\ sleeps[a].secs = 0
          /\ sleeps[b].by = "check_rate_limit" /\ sleeps[b].secs = 40


\* C36: a 404 from the lookup is retried like any other failure.  When
\* import_labels goes on to create_label, get_label has been invoked
\* MAX_RETRY_ATTEMPTS times for that label, none of them answered, the last
\* one raised the 404, and retry_with_backoff slept 2 and 4 seconds between
\* them; create_label is not invoked before that.
C36_LookupRetriedBeforeCreate ==
    [][(pc # "create_label" /\ pc' = "create_label") =>
          /\ pc = "get_label" /\ rpc = "raised"
          /\ CurrentName \notin Range(destLabels)
          /\ Len(outcomes) = MAX_RETRY_ATTEMPTS
          /\ \A i \in 1..Len(outcomes) : outcomes[i] # "ok"
          /\ outcomes[MAX_RETRY_ATTEMPTS] = "404"
          /\ BackoffSleeps = <<RETRY_DELAY_SECONDS, 2 * RETRY_DELAY_SECONDS>>
          /\ outcomes' = <<>>]_vars

\* the first create_label of a run is being invoked after three lookups that
\* raised 404
C36_Witness ==
    /\ pc = "create_label" /\ rpc = "call"
    /\ ~stats.create_called
    /\ attempt = 0
    /\ export_data.labels[idx] \notin Range(destLabels)


\* C38: a probe that fails neither blocks nor fails the call.  The step in
\* which get_rate_limit raises makes check_rate_limit return to
\* retry_with_backoff with no sleep, rate_limit_warned as it was and the same
\* attempt, and the next step of that attempt is the invocation of the
\* wrapped call.
C38_FailingProbeLetsCallThrough ==
    [][/\ (rpc = "probe" /\ probes' = Append(probes, -1)) =>
             /\ rpc' = "call"
             /\ UNCHANGED <<rate_limit_warned, sleeps, attempt, outcomes, ret>>
             /\ UNCHANGED <<destVars, pc>>
       /\ rpc = "call" =>
             /\ Len(outcomes) = attempt
             /\ Len(outcomes') = attempt + 1
             /\ probes' = probes \/ probes' = <<>>
      ]_vars

\* create_issue has answered in an attempt whose only probe failed, with
\* rate_limit_warned still set from an earlier probe
C38_Witness ==
    /\ pc = "create_issue" /\ rpc = "returned"
    /\ probes = <<-1>>
    /\ outcomes[Len(outcomes)] = "ok"
    /\ rate_limit_warned
    /\ sleeps = <<>>

(***************************************************************************)
(* GitLabMetadataExtractor (115-343).                                      *)
(***************************************************************************)
\* get_user_mapping on a cache miss (128-142): the fetched profile, or the
\* placeholder when the fetch raises
FetchedMapping(user_id) ==
    IF user_id \in DOMAIN SrcUsers
    THEN UserMapping(SrcUsers[user_id].username, user_id, "", SrcUsers[user_id].name)
    ELSE UserMapping("user_" \o ToString(user_id), user_id, "",
                     "Unknown User " \o ToString(user_id))

\* get_user_mapping (123-145): the mapping returned for user_id
get_user_mapping(cache, user_id) ==
    IF user_id \in DOMAIN cache THEN cache[user_id] ELSE FetchedMapping(user_id)

\* a variant that caches only the mappings of the users it could fetch
get_user_mapping_callFoundOnly(st, user_id) ==
    IF user_id \in DOMAIN st.cache THEN st
    ELSE [cache |-> IF user_id \in DOMAIN SrcUsers
                    THEN (user_id :> FetchedMapping(user_id)) @@ st.cache
                    ELSE st.cache,
          fetched |-> Append(st.fetched, user_id)]

\* one call of get_user_mapping (125-145) on the cache and the log of
\* users.get calls: a hit changes nothing; a miss calls users.get and stores
\* the mapping, fetched or placeholder (line 144)
get_user_mapping_call(st, user_id) ==
    IF user_id \in DOMAIN st.cache THEN st
    ELSE [cache |-> (user_id :> FetchedMapping(user_id)) @@ st.cache,
          fetched |-> Append(st.fetched, user_id)]

RECURSIVE Lookups(_, _)
\* the cache and the log after get_user_mapping was called for each of ids,
\* in order
Lookups(st, ids) ==
    IF ids = <<>> THEN st
    ELSE Lookups(get_user_mapping_call(st, Head(ids)), Tail(ids))

\* a variant that keeps every note
KeepsNoteAlways(note) == TRUE

\* line 185 / 267: `if not note.system`
KeepsNote(note) == ~note.system

\* a variant that puts the new record in front
ListAppendFront(items, item) == <<item>> \o items

\* issues.append(issue_data) (215), merge_requests.append(mr_data) (302)
ListAppend(items, item) == Append(items, item)

RECURSIVE Comments(_, _)
\* 184-194 / 266-276: the non-system notes, each with its author's mapping
Comments(notes, cache) ==
    IF notes = <<>> THEN <<>>
    ELSE (IF KeepsNote(Head(notes))
          THEN <<[id |-> Head(notes).id,
                  author |-> asdict(get_user_mapping(cache, Head(notes).author))]>>
          ELSE <<>>)
         \o Comments(Tail(notes), cache)

\* the notes the loop of 184-194 gets through before the handler of 195-196
NotesRead(item) ==
    IF item.notes_ok THEN item.notes ELSE SubSeq(item.notes, 1, item.notes_read)

\* ids get_user_mapping is called for while the notes of an item are read
\* (186 / 268), in order
NoteAuthors(item) ==
    LET read == SelectSeq(NotesRead(item), KeepsNote)
    IN  [i \in 1..Len(read) |-> read[i].author]

\* a variant that throws away the comments read before the failure
ItemCommentsAllOrNothing(item, cache) ==
    IF item.notes_ok THEN Comments(item.notes, cache) ELSE <<>>

\* 182-196: the comments appended before the listing failed are kept
ItemComments(item, cache) == Comments(NotesRead(item), cache)

\* 198-213
IssueData(issue, cache) ==
    [class |-> "IssueData",
     id |-> issue.id, iid |-> issue.iid, description |-> issue.description,
     state |-> issue.state,
     author |-> get_user_mapping(cache, issue.author),
     assignees |-> [i \in 1..Len(issue.assignees) |->
                       get_user_mapping(cache, issue.assignees[i])],
     labels |-> issue.labels, milestone |-> issue.milestone,
     comments |-> ItemComments(issue, cache)]

\* 280-299
MergeRequestData(mr, cache) ==
    [class |-> "MergeRequestData",
     id |-> mr.id, iid |-> mr.iid, description |-> mr.description,
     state |-> mr.state,
     author |-> get_user_mapping(cache, mr.author),
     assignee |-> [i \in 1..Len(mr.assignee) |->
                      get_user_mapping(cache, mr.assignee[i])],
     labels |-> mr.labels, milestone |-> mr.milestone,
     comments |-> ItemComments(mr, cache)]

\* a variant of the filter that lets open change requests through
TerminalStatesWithOpened == {"closed", "merged", "opened"}

\* line 251
TerminalStates == {"closed", "merged"}

exportLocals == <<ex_issues, ex_merge_requests, ex_labels, ex_milestones, all_users>>

\* 1004-1015: export_metadata starts: a new extractor with an empty cache
ExportMetadata ==
    /\ epc = "start"
    /\ epc' = "extract_issues"
    /\ user_cache' = EmptyMap
    /\ users_get' = <<>>
    /\ UNCHANGED <<srcProject, eidx, exportLocals, export_result>>
    /\ UNCHANGED <<importVars, fileVars, transferVars, resolverVars, repoVars>>

\* 1065-1068: the handler of export_metadata
ExportFails ==
    /\ epc' = "done"
    /\ export_result' = FALSE

\* extract_issues, 159-166: the count; the list call is outside any try
ExtractIssuesList ==
    /\ epc = "extract_issues"
    /\ IF "issues" \in srcProject.fails
       THEN ExportFails
       ELSE /\ epc' = IF Len(srcProject.issues) = 0 THEN "extract_merge_requests" ELSE "issue"
            /\ UNCHANGED export_result
    /\ eidx' = 1
    /\ UNCHANGED <<srcProject, user_cache, users_get, exportLocals>>
    /\ UNCHANGED <<importVars, fileVars, transferVars, resolverVars, repoVars>>

\* one pass of the loop of extract_issues (169-221), or its return (223-224)
ExtractIssue ==
    /\ epc = "issue"
    /\ IF eidx <= Len(srcProject.issues)
       THEN LET issue == srcProject.issues[eidx]
                ids == <<issue.author>> \o issue.assignees \o NoteAuthors(issue)
                st == Lookups([cache |-> user_cache, fetched |-> users_get], ids)
                cache == st.cache
            IN  /\ IF issue.bad
                   THEN UNCHANGED <<ex_issues, user_cache, users_get>>
                   ELSE /\ ex_issues' = ListAppend(ex_issues, IssueData(issue, cache))
                        /\ user_cache' = cache
                        /\ users_get' = st.fetched
                /\ eidx' = eidx + 1
                /\ epc' = epc
       ELSE /\ epc' = "extract_merge_requests"
            /\ eidx' = 1
            /\ UNCHANGED <<ex_issues, user_cache, users_get>>
    /\ UNCHANGED <<srcProject, ex_merge_requests, ex_labels, ex_milestones, all_users, export_result>>
    /\ UNCHANGED <<importVars, fileVars, transferVars, resolverVars, repoVars>>

\* extract_merge_requests, 238-245
ExtractMergeRequestsList ==
    /\ epc = "extract_merge_requests"
    /\ IF "merge_requests" \in srcProject.fails
       THEN ExportFails
       ELSE /\ epc' = IF Len(srcProject.merge_requests) = 0 THEN "extract_labels" ELSE "mr"
            /\ UNCHANGED export_result
    /\ eidx' = 1
    /\ UNCHANGED <<srcProject, user_cache, users_get, exportLocals>>
    /\ UNCHANGED <<importVars, fileVars, transferVars, resolverVars, repoVars>>

\* one pass of the loop of extract_merge_requests (248-307), or its return
ExtractMergeRequest ==
    /\ epc = "mr"
    /\ IF eidx <= Len(srcProject.merge_requests)
       THEN LET mr == srcProject.merge_requests[eidx]
                ids == <<mr.author>> \o mr.assignee \o NoteAuthors(mr)
                st == Lookups([cache |-> user_cache, fetched |-> users_get], ids)
                cache == st.cache
            IN  /\ IF mr.state \notin TerminalStates \/ mr.bad
                   THEN UNCHANGED <<ex_merge_requests, user_cache, users_get>>
                   ELSE /\ ex_merge_requests' = ListAppend(ex_merge_requests, MergeRequestData(mr, cache))
                        /\ user_cache' = cache
                        /\ users_get' = st.fetched
                /\ eidx' = eidx + 1
                /\ epc' = epc
       ELSE /\ epc' = "extract_labels"
            /\ eidx' = 1
            /\ UNCHANGED <<ex_merge_requests, user_cache, users_get>>
    /\ UNCHANGED <<srcProject, ex_issues, ex_labels, ex_milestones, all_users, export_result>>
    /\ UNCHANGED <<importVars, fileVars, transferVars, resolverVars, repoVars>>

\* extract_labels (312-325): a failing list call leaves the list empty
ExtractLabels ==
    /\ epc = "extract_labels"
    /\ ex_labels' = IF "labels" \in srcProject.fails THEN <<>> ELSE srcProject.labels
    /\ epc' = "extract_milestones"
    /\ UNCHANGED <<srcProject, eidx, user_cache, users_get, ex_issues, ex_merge_requests,
                   ex_milestones, all_users, export_result>>
    /\ UNCHANGED <<importVars, fileVars, transferVars, resolverVars, repoVars>>

\* extract_milestones (327-343)
ExtractMilestones ==
    /\ epc = "extract_milestones"
    /\ ex_milestones' = IF "milestones" \in srcProject.fails THEN <<>> ELSE srcProject.milestones
    /\ epc' = "collect_users"
    /\ UNCHANGED <<srcProject, eidx, user_cache, users_get, ex_issues, ex_merge_requests,
                   ex_labels, all_users, export_result>>
    /\ UNCHANGED <<importVars, fileVars, transferVars, resolverVars, repoVars>>

(***************************************************************************)
(* MetadataTransferTool.export_metadata (1004-1068).                       *)
(***************************************************************************)
\* UserMapping is a plain @dataclass (48-56): eq without frozen sets
\* __hash__ to None, so an instance cannot be a member of a set
UserMappingHashable == FALSE

\* the users export_metadata adds to all_users (1022-1033)
UsersToCollect ==
    UNION {{i.author} \cup Range(i.assignees)
              \cup {UserMappingOf(c.author) : c \in Range(i.comments)} :
              i \in Range(ex_issues)}
    \cup
    UNION {{m.author} \cup Range(m.assignee)
              \cup {UserMappingOf(c.author) : c \in Range(m.comments)} :
              m \in Range(ex_merge_requests)}

\* 1020-1033: the first all_users.add raises TypeError, which the handler
\* of 1065-1068 turns into a False return
CollectUsers ==
    /\ epc = "collect_users"
    /\ IF UsersToCollect # {} /\ ~UserMappingHashable
       THEN /\ ExportFails
            /\ UNCHANGED all_users
       ELSE /\ all_users' = UsersToCollect
            /\ epc' = "write_export"
            /\ UNCHANGED export_result
    /\ UNCHANGED <<srcProject, eidx, user_cache, users_get, ex_issues, ex_merge_requests,
                   ex_labels, ex_milestones>>
    /\ UNCHANGED <<importVars, fileVars, transferVars, resolverVars, repoVars>>

\* 1036-1055: metadata_export.json is written
WriteExportFile ==
    /\ epc = "write_export"
    /\ exportFile' = [exists |-> TRUE,
                      data |-> json_dump(ExportData(ex_issues, ex_merge_requests,
                                                   ex_labels, ex_milestones))]
    /\ epc' = "write_mapping"
    /\ UNCHANGED <<srcProject, eidx, user_cache, users_get, exportLocals, export_result>>
    /\ UNCHANGED <<importVars, mappingFile, summaryFile, transferVars, resolverVars, repoVars>>

\* create_user_mapping_file (944-972): one entry per gitlab_username, with
\* an empty github_username
\* 952-962: one entry per user of the set, keyed by gitlab_username
user_mapping_data(gitlab_users) ==
    [n \in {u.gitlab_username : u \in gitlab_users} |->
        MappingEntry(CHOOSE u \in gitlab_users : u.gitlab_username = n, "")]

\* a variant that leaves a file that is already there alone
WriteMappingFileKeepsExisting(file, data) ==
    IF file.exists THEN file ELSE [file EXCEPT !.exists = TRUE, !.data = data]

\* 963-973: open(mapping_file, 'w') and json.dump; when open raises the
\* handler returns False and the file is as it was
WriteMappingFile(file, data) ==
    IF file.writable THEN [file EXCEPT !.exists = TRUE, !.data = data] ELSE file

CreateUserMappingFile ==
    /\ epc = "write_mapping"
    /\ mappingFile' = WriteMappingFile(mappingFile, user_mapping_data(all_users))
    /\ epc' = "summary"
    /\ UNCHANGED <<srcProject, eidx, user_cache, users_get, exportLocals, export_result>>
    /\ UNCHANGED <<importVars, exportFile, summaryFile, transferVars, resolverVars, repoVars>>

\* 1060-1063: the summary is written and export_metadata returns True
ExportSummary ==
    /\ epc = "summary"
    /\ epc' = "done"
    /\ export_result' = TRUE
    /\ UNCHANGED <<srcProject, eidx, user_cache, users_get, exportLocals>>
    /\ UNCHANGED <<importVars, fileVars, transferVars, resolverVars, repoVars>>

\* the import is not running
ImportIdle ==
    /\ destLabels = <<>>
    /\ destMilestones = <<>>
    /\ destIssues = <<>>
    /\ pc = "idle"
    /\ run = 1
    /\ user_mappings = EmptyMap
    /\ result = FALSE
    /\ export_data = EmptySnapshot
    /\ returned = {}
    /\ idx = 1
    /\ cidx = 1
    /\ imported_labels = EmptyMap
    /\ label_failures = <<>>
    /\ imported_milestones = EmptyMap
    /\ imported_issues = <<>>
    /\ github_issue = 0
    /\ rate_limit_warned = FALSE
    /\ attempt = 0
    /\ rpc = "idle"
    /\ ret = [val |-> 0, exc |-> None]
    /\ anomaliesLeft = 0
    /\ faulted = FALSE
    /\ outcomes = <<>>
    /\ sleeps = <<>>
    /\ probes = <<>>
    /\ quota = -1
    /\ warned_now = FALSE
    /\ stats = EmptyStats

InitExport ==
    /\ ImportIdle
    /\ TransferIdle
    /\ ResolverIdle
    /\ RepoIdle
    /\ srcProject \in SrcProjects
    /\ exportFile = [exists |-> FALSE, data |-> EmptySnapshot]
    /\ mappingFile \in MappingFiles
    /\ summaryFile = NoSummary
    /\ epc = "start"
    /\ eidx = 1
    /\ user_cache = EmptyMap
    /\ users_get = <<>>
    /\ ex_issues = <<>>
    /\ ex_merge_requests = <<>>
    /\ ex_labels = <<>>
    /\ ex_milestones = <<>>
    /\ all_users = {}
    /\ export_result = FALSE

NextExport ==
    \/ ExportMetadata
    \/ ExtractIssuesList
    \/ ExtractIssue
    \/ ExtractMergeRequestsList
    \/ ExtractMergeRequest
    \/ ExtractLabels
    \/ ExtractMilestones
    \/ CollectUsers
    \/ WriteExportFile
    \/ CreateUserMappingFile
    \/ ExportSummary

SpecExport == InitExport /\ [][NextExport]_vars

(***************************************************************************)
(* MetadataTransferTool: validate_repositories (757-822),                  *)
(* _check_gitlab_metadata_access (843-942), transfer_metadata (1199-1238)  *)
(* and dry_run_analysis (1240-1323).                                       *)
(***************************************************************************)
\* repository names are sequences of characters
GitlabNames == {<<"A", "b">>, <<"a", "b", "c">>}
GithubNames == {<<"a", "b">>, <<"x">>, <<"x", "A", "B", "C">>}

\* str.lower() on the characters the names use
LowerChar(c) ==
    CASE c = "A" -> "a" [] c = "B" -> "b" [] c = "C" -> "c" [] OTHER -> c

lower(name) == [i \in 1..Len(name) |-> LowerChar(name[i])]

\* Python's `t in s` on strings
Contains(s, t) ==
    \E i \in 1..(Len(s) - Len(t) + 1) : SubSeq(s, i, i + Len(t) - 1) = t

\* a variant that accepts equal names only
name_matchEqualOnly(gitlab_name, github_name) == gitlab_name = github_name

\* line 777, on the lowered names
name_match(gitlab_name, github_name) ==
    \/ gitlab_name = github_name
    \/ Contains(gitlab_name, github_name)
    \/ Contains(github_name, gitlab_name)

\* the text of the exception a failing list call raises, as its words
ErrorKinds ==
    {<<"403", "Forbidden">>, <<"401", "Unauthorized">>,
     <<"500", "Internal Server Error">>}

\* the source projects a transfer is run on
TransferProjects ==
    {EmptyProject,
     [issues |-> <<>>, merge_requests |-> <<>>, labels |-> <<"bug", "ui">>,
      milestones |-> <<"v1">>, fails |-> {}, error |-> <<"500", "Internal Server Error">>],
     [issues |-> <<SrcIssue1>>, merge_requests |-> <<SrcMR2, SrcMR1>>,
      labels |-> <<"bug", "ui">>, milestones |-> <<"v1">>, fails |-> {},
      error |-> <<"500", "Internal Server Error">>]}
    \cup
    [issues : {<<SrcIssue1>>}, merge_requests : {<<>>}, labels : {<<"bug", "ui">>},
     milestones : {<<"v1">>}, fails : {{"issues"}}, error : ErrorKinds]
    \cup
    [issues : {<<>>}, merge_requests : {<<>>}, labels : {<<"bug", "ui">>},
     milestones : {<<"v1">>}, fails : {{"labels", "milestones"}}, error : ErrorKinds]

\* what get_commits().get_page(0) answers for the repository: a number of
\* commits, or -1 when the call raises
CommitOutcomes == {-1, 0, 2}

\* a count of _check_gitlab_metadata_access: an int, or a text
IntCount(n) == [isint |-> TRUE, n |-> n, text |-> ""]
TextCount(t) == [isint |-> FALSE, n |-> 0, text |-> t]

\* a variant that takes every failure for a permission error
CountOnErrorAllPermission(e, tests401) == TextCount("Permission denied")

\* the handlers of 869-876 and 889-896 (which test for 401 too) and of
\* 902-907 and 913-918 (which do not)
CountOnError(e, tests401) ==
    IF "403" \in Range(e) \/ "Forbidden" \in Range(e)
    THEN TextCount("Permission denied")
    ELSE IF tests401 /\ ("401" \in Range(e) \/ "Unauthorized" \in Range(e))
         THEN TextCount("Authentication failed")
         ELSE TextCount("Error: ...")

\* 858-876, 879-896: the first page, then the full count; lazy_fails tells
\* whether the second list call raises
PagedCount(items, failed, e, lazy_fails) ==
    IF failed THEN CountOnError(e, TRUE)
    ELSE IF Len(items) > 0
         THEN (IF lazy_fails THEN TextCount("1+") ELSE IntCount(Len(items)))
         ELSE IntCount(0)

\* 899-918
ListCount(items, failed, e) ==
    IF failed THEN CountOnError(e, FALSE) ELSE IntCount(Len(items))

\* one row of the validation table
Check(name, text, style) ==
    [check |-> name, result |-> text, style |-> style, counts |-> <<>>]

\* _check_gitlab_metadata_access (843-942)
check_gitlab_metadata_access(project, lazy_fails) ==
    LET e == project.error
        counts ==
            <<PagedCount(project.issues, "issues" \in project.fails, e, lazy_fails),
              PagedCount(project.merge_requests, "merge_requests" \in project.fails,
                         e, lazy_fails),
              ListCount(project.labels, "labels" \in project.fails, e),
              ListCount(project.milestones, "milestones" \in project.fails, e)>>
        permission_errors == {"Permission denied", "Authentication failed"}
        has_permission_error == \E i \in 1..4 : counts[i].text \in permission_errors
        has_api_error == \E i \in 1..4 : counts[i].text = "Error: ..."
        has_data == \E i \in 1..4 : counts[i].isint /\ counts[i].n > 0
        all_zero == \A i \in 1..4 : counts[i].isint => counts[i].n = 0
        verdict ==
            IF has_api_error THEN <<"API Error", "red">>
            ELSE IF has_permission_error THEN <<"Permission Issues", "yellow">>
            ELSE IF has_data THEN <<"Success", "green">>
            ELSE IF all_zero /\ ~has_permission_error THEN <<"No Data Found", "yellow">>
            ELSE <<"Mixed Results", "yellow">>
    IN  [check |-> "GitLab metadata access", result |-> verdict[1],
         style |-> verdict[2], counts |-> counts]

\* 774-783
NameCheck(gitlab, github) ==
    IF name_match(lower(gitlab.name), lower(github.name))
    THEN Check("Repository names similar", "Pass", "green")
    ELSE Check("Repository names similar", "Warning", "yellow")

\* 785-796
CommitCheck(commit_count) ==
    IF commit_count = -1 THEN Check("GitHub repository has commits", "Error", "red")
    ELSE IF commit_count > 0 THEN Check("GitHub repository has commits", "Pass", "green")
    ELSE Check("GitHub repository has commits", "Warning: Empty repository", "yellow")

\* 767-768
AccessCheck(name, handle) ==
    Check(name, IF handle.found THEN "Pass" ELSE "Fail",
          IF handle.found THEN "green" ELSE "red")

\* a variant that returns True whatever the operator answers
ValidateReturnsWithoutAnswer(blocking, warnings, answer) == ~blocking

\* 810-822: what validate_repositories returns
ValidateReturns(blocking, warnings, answer) ==
    ~blocking /\ (warnings => answer)

\* a variant that ignores the flag
TransferModeIgnoresFlag(dry) == "transfer_metadata"

\* 1202-1204: the method that does the work
TransferMode(dry) == IF dry THEN "dry_run_analysis" ELSE "transfer_metadata"

exportRest == <<srcProject, eidx, user_cache, users_get, exportLocals, export_result>>
importRest == <<destVars, loopVars, run, user_mappings, result, export_data, returned,
                retryVars, envVars, obsVars>>
validationLocals == <<validation_results, has_blocking_errors, has_warnings, asked,
                      proceed, validation>>

\* a step of transfer_metadata ends the run with False
TransferFails ==
    /\ tpc' = "done"
    /\ transfer_result' = "False"

\* a variant that goes on whatever the setup returned
AfterSetupIgnoresFailure(ok, next) == next

\* `if not self.setup_...: return False` (1209-1213, 1246-1250)
AfterSetup(ok, next) == IF ok THEN next ELSE "done"

\* setup_gitlab_client (621-645), called at 1209 / 1246: the client is built
\* and auth() succeeds, or one of the two raises and the method returns False
SetupGitlabClient ==
    /\ tpc = "start"
    /\ \E ok \in BOOLEAN :
          /\ gitlab_client' = IF ok THEN "authenticated" ELSE "failed"
          /\ tpc' = AfterSetup(ok, "setup_github")
          /\ transfer_result' = IF ok THEN transfer_result ELSE "False"
    /\ UNCHANGED <<dry_run, github_client, gitlab_project, github_repo,
                   validationLocals, metadata_check>>
    /\ UNCHANGED <<resolverVars, repoVars, importVars, fileVars, exportVars>>

\* setup_github_client (647-656), called at 1212 / 1249: get_user answers
\* or raises
SetupGithubClient ==
    /\ tpc = "setup_github"
    /\ \E ok \in BOOLEAN :
          /\ github_client' = IF ok THEN "authenticated" ELSE "failed"
          /\ tpc' = AfterSetup(ok, "get_gitlab_project")
          /\ transfer_result' = IF ok THEN transfer_result ELSE "False"
    /\ UNCHANGED <<dry_run, gitlab_client, gitlab_project, github_repo,
                   validationLocals, metadata_check>>
    /\ UNCHANGED <<resolverVars, repoVars, importVars, fileVars, exportVars>>

\* get_gitlab_project (658-745): the project is found, or no strategy works
GetGitlabProject ==
    /\ tpc = "get_gitlab_project"
    /\ \/ \E name \in GitlabNames :
             /\ gitlab_project' = [found |-> TRUE, name |-> name]
             /\ tpc' = "get_github_repo"
             /\ UNCHANGED transfer_result
       \/ /\ TransferFails
          /\ UNCHANGED gitlab_project
    /\ UNCHANGED <<dry_run, gitlab_client, github_client, github_repo, validationLocals, metadata_check>>
    /\ UNCHANGED <<resolverVars, repoVars, importVars, fileVars, exportVars>>

\* get_github_repo (747-755)
GetGithubRepo ==
    /\ tpc = "get_github_repo"
    /\ \/ \E name \in GithubNames, commits \in CommitOutcomes :
             /\ github_repo' = [found |-> TRUE, name |-> name, commits |-> commits]
             /\ tpc' = "validate"
             /\ UNCHANGED transfer_result
       \/ /\ TransferFails
          /\ UNCHANGED github_repo
    /\ UNCHANGED <<dry_run, gitlab_client, github_client, gitlab_project, validationLocals, metadata_check>>
    /\ UNCHANGED <<resolverVars, repoVars, importVars, fileVars, exportVars>>

\* validate_repositories up to the question (757-815): the checks are made
\* and the table is shown
ValidateRepositories ==
    /\ tpc = "validate"
    /\ \E lazy_fails \in BOOLEAN :
          LET missing == ~gitlab_project.found \/ ~github_repo.found
              commit_count == github_repo.commits
              metadata_result == check_gitlab_metadata_access(srcProject, lazy_fails)
              blocking == ~missing /\ (commit_count = -1 \/ metadata_result.style = "red")
              warnings ==
                  /\ ~missing
                  /\ \/ NameCheck(gitlab_project, github_repo).style = "yellow"
                     \/ CommitCheck(commit_count).style = "yellow"
                     \/ metadata_result.style = "yellow"
          IN  /\ validation_results' =
                    <<AccessCheck("GitLab project accessible", gitlab_project),
                      AccessCheck("GitHub repository accessible", github_repo)>>
                    \o (IF missing THEN <<>>
                        ELSE <<NameCheck(gitlab_project, github_repo),
                               CommitCheck(commit_count), metadata_result>>)
              /\ has_blocking_errors' = blocking
              /\ has_warnings' = warnings
              /\ IF ~missing /\ ~blocking /\ warnings
                 THEN /\ tpc' = "confirm"
                      /\ UNCHANGED validation
                 ELSE /\ tpc' = "validated"
                      /\ validation' = IF ~missing /\ ValidateReturns(blocking, warnings, FALSE)
                                       THEN "passed" ELSE "failed"
    /\ UNCHANGED <<dry_run, gitlab_client, github_client, gitlab_project, github_repo, asked, proceed,
                   metadata_check, transfer_result>>
    /\ UNCHANGED <<resolverVars, repoVars, importVars, fileVars, exportVars>>

\* 816-822: Confirm.ask, and the return value
ConfirmAsk ==
    /\ tpc = "confirm"
    /\ \E answer \in BOOLEAN :
          /\ asked' = TRUE
          /\ proceed' = answer
          /\ validation' = IF ValidateReturns(has_blocking_errors, has_warnings, answer)
                           THEN "passed" ELSE "failed"
    /\ tpc' = "validated"
    /\ UNCHANGED <<dry_run, gitlab_client, github_client, gitlab_project, github_repo, validation_results,
                   has_blocking_errors, has_warnings, metadata_check, transfer_result>>
    /\ UNCHANGED <<resolverVars, repoVars, importVars, fileVars, exportVars>>

\* 1223-1227 / 1258-1262: a failed validation ends the run; otherwise
\* transfer_metadata calls export_metadata and dry_run_analysis goes on to
\* its analysis.  dry_run does not change during a run, so the branch of
\* 1202 is taken here.
AfterValidation ==
    /\ tpc = "validated"
    /\ IF validation # "passed"
       THEN /\ TransferFails
            /\ UNCHANGED epc
       ELSE IF TransferMode(dry_run) = "dry_run_analysis"
            THEN /\ tpc' = "analysis"
                 /\ UNCHANGED <<epc, transfer_result>>
            ELSE /\ tpc' = "export"
                 /\ epc' = "start"
                 /\ UNCHANGED transfer_result
    /\ UNCHANGED <<dry_run, gitlab_client, github_client, gitlab_project, github_repo, validationLocals, metadata_check>>
    /\ UNCHANGED <<resolverVars, repoVars, importVars, fileVars, exportRest>>

\* 1227-1231: export_metadata has returned
AfterExport ==
    /\ tpc = "export" /\ epc = "done"
    /\ IF export_result
       THEN /\ tpc' = "import"
            /\ pc' = "start"
            /\ UNCHANGED transfer_result
       ELSE /\ TransferFails
            /\ UNCHANGED pc
    /\ UNCHANGED <<dry_run, gitlab_client, github_client, gitlab_project, github_repo, validationLocals, metadata_check>>
    /\ UNCHANGED <<resolverVars, repoVars, importRest, fileVars, exportVars>>

\* the export directory is changed from outside between export_metadata and
\* import_metadata: metadata_export.json is gone when 1112 tests for it
ExportFileRemoved ==
    /\ tpc = "import" /\ pc = "start"
    /\ exportFile.exists
    /\ exportFile' = [exists |-> FALSE, data |-> EmptySnapshot]
    /\ UNCHANGED <<mappingFile, summaryFile>>
    /\ UNCHANGED <<resolverVars, repoVars, importVars, exportVars, transferVars>>

\* 1231-1238: import_metadata has returned
AfterImport ==
    /\ tpc = "import" /\ pc = "done"
    /\ tpc' = "done"
    /\ transfer_result' = IF result THEN "True" ELSE "False"
    /\ UNCHANGED <<dry_run, gitlab_client, github_client, gitlab_project, github_repo, validationLocals, metadata_check>>
    /\ UNCHANGED <<resolverVars, repoVars, importVars, fileVars, exportVars>>

\* 1262-1323: the extractor is built, the access check is made again and the
\* table is printed
DryRunAnalysis ==
    /\ tpc = "analysis"
    /\ \E lazy_fails \in BOOLEAN :
          metadata_check' = check_gitlab_metadata_access(srcProject, lazy_fails)
    /\ tpc' = "done"
    /\ transfer_result' = "True"
    /\ UNCHANGED <<dry_run, gitlab_client, github_client, gitlab_project, github_repo, validationLocals>>
    /\ UNCHANGED <<resolverVars, repoVars, importVars, fileVars, exportVars>>

InitTransfer ==
    /\ ResolverIdle
    /\ RepoIdle
    /\ tpc = "start"
    /\ dry_run \in BOOLEAN
    /\ gitlab_client = "None"
    /\ github_client = "None"
    /\ gitlab_project = NoHandle
    /\ github_repo = NoRepo
    /\ validation_results = <<>>
    /\ has_blocking_errors = FALSE
    /\ has_warnings = FALSE
    /\ asked = FALSE
    /\ proceed = FALSE
    /\ validation = "pending"
    /\ metadata_check = NoCheck
    /\ transfer_result = "pending"
    /\ srcProject \in TransferProjects
    /\ epc = "idle"
    /\ eidx = 1
    /\ user_cache = EmptyMap
    /\ users_get = <<>>
    /\ ex_issues = <<>>
    /\ ex_merge_requests = <<>>
    /\ ex_labels = <<>>
    /\ ex_milestones = <<>>
    /\ all_users = {}
    /\ export_result = FALSE
    /\ exportFile = [exists |-> FALSE, data |-> EmptySnapshot]
    /\ mappingFile \in MappingFiles \cup {ReadOnlyMappingFile}
    /\ summaryFile = NoSummary
    /\ \E d \in DestStates :
          /\ destLabels = d.labels
          /\ destMilestones = d.milestones
    /\ destIssues = <<>>
    /\ pc = "idle"
    /\ run = 1
    /\ user_mappings = EmptyMap
    /\ result = FALSE
    /\ export_data = EmptySnapshot
    /\ returned = {}
    /\ idx = 1
    /\ cidx = 1
    /\ imported_labels = EmptyMap
    /\ label_failures = <<>>
    /\ imported_milestones = EmptyMap
    /\ imported_issues = <<>>
    /\ github_issue = 0
    /\ rate_limit_warned = FALSE
    /\ attempt = 0
    /\ rpc = "idle"
    /\ ret = [val |-> 0, exc |-> None]
    /\ anomaliesLeft = MaxAnomalies
    /\ faulted = FALSE
    /\ outcomes = <<>>
    /\ sleeps = <<>>
    /\ probes = <<>>
    /\ quota = -1
    /\ warned_now = FALSE
    /\ stats = EmptyStats

\* the steps of transfer_metadata with those of the export and the import it
\* calls.  The issue steps of the import are not among them: export_metadata
\* returns False for every project with an extracted issue, so the import of
\* a transfer never has an issue to create.
NextTransfer ==
    \/ SetupGitlabClient
    \/ SetupGithubClient
    \/ GetGitlabProject
    \/ GetGithubRepo
    \/ ValidateRepositories
    \/ ConfirmAsk
    \/ AfterValidation
    \/ DryRunAnalysis
    \/ ExportMetadata
    \/ ExtractIssuesList
    \/ ExtractIssue
    \/ ExtractMergeRequestsList
    \/ ExtractMergeRequest
    \/ ExtractLabels
    \/ ExtractMilestones
    \/ CollectUsers
    \/ WriteExportFile
    \/ CreateUserMappingFile
    \/ ExportSummary
    \/ AfterExport
    \/ ExportFileRemoved
    \/ ImportMetadata
    \/ CheckRateLimit
    \/ CallReturns
    \/ CallRaisesNotFound
    \/ CallRaisesFault
    \/ ImportLabelsLoop
    \/ GetLabelReturn
    \/ CreateLabelReturn
    \/ ImportMilestonesLoop
    \/ GetMilestonesReturn
    \/ CreateMilestoneReturn
    \/ ImportIssuesLoop
    \/ ImportSummary
    \/ AfterImport

SpecTransfer == InitTransfer /\ [][NextTransfer]_vars

(***************************************************************************)
(* Properties of the export.                                               *)
(***************************************************************************)
\* C5: for a project with at least one extracted issue or change request,
\* export_metadata completes, writes the snapshot file, and writes a mapping
\* file with exactly one entry per distinct author, assignee and comment
\* author.
C5_ExportWritesOneEntryPerUser ==
    (epc = "done" /\ (ex_issues # <<>> \/ ex_merge_requests # <<>>)) =>
        /\ export_result
        /\ exportFile.exists
        /\ Ids(exportFile.data.issues) = Ids(ex_issues)
        /\ mappingFile.exists
        /\ DOMAIN mappingFile.data = {u.gitlab_username : u \in UsersToCollect}

\* C11: a failure to enumerate a whole source category degrades to an empty
\* list: when the list call of issues, change requests, labels or milestones
\* raises, the extract_* method returns the empty list without raising and
\* export_metadata goes on to the next step.
C11_CategoryFailureDegrades ==
    [][/\ (epc = "extract_issues" /\ "issues" \in srcProject.fails) =>
             (epc' = "extract_merge_requests" /\ ex_issues' = <<>>)
       /\ (epc = "extract_merge_requests" /\ "merge_requests" \in srcProject.fails) =>
             (epc' = "extract_labels" /\ ex_merge_requests' = <<>>)
       /\ (epc = "extract_labels" /\ "labels" \in srcProject.fails) =>
             (epc' = "extract_milestones" /\ ex_labels' = <<>>)
       /\ (epc = "extract_milestones" /\ "milestones" \in srcProject.fails) =>
             (epc' = "collect_users" /\ ex_milestones' = <<>>)]_vars

\* extract_issues has returned its list
IssuesExtracted ==
    /\ epc \notin {"idle", "start", "extract_issues", "issue"}
    /\ "issues" \notin srcProject.fails

\* C12: a failure while the comments of one issue are read does not lose the
\* issue: extract_issues returns one record per listed issue whose own
\* fields are readable, in the listed order, and each record carries the
\* non-system notes read before the failure (all of them when nothing
\* failed); with only comment-fetch failures the list has as many entries
\* as the source listed.
C12_CommentFailureContained ==
    IssuesExtracted =>
        /\ Ids(ex_issues) = Ids(SelectSeq(srcProject.issues, LAMBDA i : ~i.bad))
        /\ \A k \in 1..Len(ex_issues) :
              LET src == SelectSeq(srcProject.issues, LAMBDA i : ~i.bad)[k]
                  read == IF src.notes_ok THEN Len(src.notes) ELSE src.notes_read
              IN  Ids(ex_issues[k].comments) =
                     Ids(SelectSeq(SubSeq(src.notes, 1, read), LAMBDA n : ~n.system))
        /\ (\A i \in Range(srcProject.issues) : ~i.bad) =>
              Len(ex_issues) = Len(srcProject.issues)

\* three issues listed, the notes of the first fail after one comment was
\* read and those of the second fail at once: all three are returned
C12_Witness ==
    /\ IssuesExtracted
    /\ Len(srcProject.issues) = 3
    /\ Len(ex_issues) = 3
    /\ ~srcProject.issues[1].notes_ok
    /\ Len(ex_issues[1].comments) = 1
    /\ ex_issues[2].comments = <<>>

\* C14: extract_merge_requests returns only change requests whose state is
\* closed or merged, so no other state reaches the snapshot file or the
\* data the importer loads from it.
C14_OnlyTerminalMergeRequests ==
    /\ \A m \in Range(ex_merge_requests) : m.state = "closed" \/ m.state = "merged"
    /\ \A m \in Range(exportFile.data.merge_requests) :
          m.state = "closed" \/ m.state = "merged"
    /\ \A m \in Range(export_data.merge_requests) :
          m.state = "closed" \/ m.state = "merged"

\* a list with a closed, a locked and a merged change request was filtered
C14_Witness ==
    /\ epc = "extract_labels"
    /\ Len(srcProject.merge_requests) = 3
    /\ \E m \in Range(srcProject.merge_requests) : m.state = "locked"
    /\ Len(ex_merge_requests) = 2

\* C27: within one extraction users.get is called at most once for a user id,
\* whether the fetch worked or not; every id looked up is in the cache
\* afterwards, with the placeholder (user_<id>, Unknown User <id>) when the
\* fetch failed; and every mapping handed out for an id is the cached one.
C27_OneFetchPerUser ==
    /\ \A a, b \in 1..Len(users_get) : users_get[a] = users_get[b] => a = b
    /\ DOMAIN user_cache = Range(users_get)
    /\ \A id \in DOMAIN user_cache :
          /\ user_cache[id].gitlab_id = id
          /\ id \notin DOMAIN SrcUsers =>
                /\ user_cache[id].gitlab_username = "user_" \o ToString(id)
                /\ user_cache[id].fallback_name = "Unknown User " \o ToString(id)
          /\ id \in DOMAIN SrcUsers =>
                /\ user_cache[id].gitlab_username = SrcUsers[id].username
                /\ user_cache[id].fallback_name = SrcUsers[id].name
    /\ \A m \in UsersToCollect :
          m.gitlab_id \in DOMAIN user_cache /\ user_cache[m.gitlab_id] = m

\* user 3 cannot be fetched and is the author of an extracted issue and of an
\* extracted change request: it was fetched once and both carry the placeholder
C27_Witness ==
    /\ epc = "extract_labels"
    /\ \E i \in Range(ex_issues) : i.author.gitlab_username = "user_3"
    /\ \E m \in Range(ex_merge_requests) : m.author.fallback_name = "Unknown User 3"
    /\ 3 \in Range(users_get)
    /\ Len(users_get) = 3


\* the source item an extracted record was built from
SourceOf(record, items) ==
    CHOOSE src \in Range(items) : src.id = record.id

\* C33: extraction keeps the order of the source.  At every point of the
\* export the issues, change requests, labels and milestones extracted so far
\* are the source list with some elements left out, in the order the source
\* lists them, and the comments of each record are the notes of its source
\* item with some left out, in the order of the notes.
C33_ExtractionPreservesOrder ==
    /\ IsSubSeq(Ids(ex_issues), Ids(srcProject.issues))
    /\ IsSubSeq(Ids(ex_merge_requests), Ids(srcProject.merge_requests))
    /\ IsSubSeq(ex_labels, srcProject.labels)
    /\ IsSubSeq(ex_milestones, srcProject.milestones)
    /\ \A i \in Range(ex_issues) :
          IsSubSeq(Ids(i.comments), Ids(SourceOf(i, srcProject.issues).notes))
    /\ \A m \in Range(ex_merge_requests) :
          IsSubSeq(Ids(m.comments), Ids(SourceOf(m, srcProject.merge_requests).notes))

\* the source lists issues 104, 102, 101 and change requests 203, 204, 201:
\* the records come out in that order, not by id, with 204 left out, and the
\* labels and milestones as listed
C33_Witness ==
    /\ Ids(ex_issues) = <<104, 102, 101>>
    /\ Ids(ex_merge_requests) = <<203, 201>>
    /\ ex_labels = <<"bug", "ui">>
    /\ ex_milestones = <<"v1">>
    /\ Ids(ex_issues[1].comments) = <<14>>

\* the notes of a source item read before the listing failed (all of them
\* when it did not fail)
ReadNotes(src) ==
    SubSeq(src.notes, 1, IF src.notes_ok THEN Len(src.notes) ELSE src.notes_read)

\* the comments of a record are the non-system notes read from its source
CommentsAreNotes(record, src) ==
    /\ \A c \in Range(record.comments) :
          \E n \in Range(src.notes) : n.id = c.id /\ ~n.system
    /\ \A n \in Range(ReadNotes(src)) :
          ~n.system => n.id \in Range(Ids(record.comments))

\* C34: no comment of an extracted issue or change request comes from a
\* note whose system flag is set, and every other note read before the
\* listing of the notes failed is among the comments.
C34_SystemNotesExcluded ==
    /\ \A i \in Range(ex_issues) :
          CommentsAreNotes(i, SourceOf(i, srcProject.issues))
    /\ \A m \in Range(ex_merge_requests) :
          CommentsAreNotes(m, SourceOf(m, srcProject.merge_requests))

\* issue 101 has a system note after a comment and its notes are read to the
\* end; the notes of change request 203 fail after a system note and a
\* comment were read; change request 201 has a system note before a comment
C34_Witness ==
    /\ \E i \in Range(ex_issues) : i.id = 101 /\ Ids(i.comments) = <<11>>
    /\ \E m \in Range(ex_merge_requests) : m.id = 203 /\ Ids(m.comments) = <<22>>
    /\ \E m \in Range(ex_merge_requests) : m.id = 201 /\ Ids(m.comments) = <<21>>

(***************************************************************************)
(* Properties of the validator and of transfer_metadata.                   *)
(***************************************************************************)
\* validate_repositories has made its five checks
Validated == Len(validation_results) = 5

\* the failure of category c is one the access check takes for a permission
\* error: 403 in any category, 401 for issues and change requests
PermissionFailure(c) ==
    \/ "403" \in Range(srcProject.error)
    \/ "401" \in Range(srcProject.error) /\ c \in {"issues", "merge_requests"}

C18_ValidatorGates ==
    [][/\ (epc = "idle" /\ epc' # "idle") =>
             /\ validation = "passed"
             /\ ~has_blocking_errors
             /\ has_warnings => (asked /\ proceed)
       /\ (validation # "passed") =>
             /\ epc' = "idle" /\ pc' = "idle" /\ rpc' = "idle"
             /\ UNCHANGED <<destVars, fileVars>>
       /\ (tpc # "done" /\ tpc' = "done" /\ validation # "passed") =>
             transfer_result' = "False"
      ]_vars

\* the operator declined after a warning and the run ended untouched
C18_Witness ==
    /\ ~dry_run
    /\ tpc = "done" /\ transfer_result = "False"
    /\ has_warnings /\ asked /\ ~proceed
    /\ epc = "idle" /\ pc = "idle"
    /\ ~exportFile.exists /\ ~mappingFile.exists

\* t occurs in s
IsInfix(t, s) ==
    \E i \in 0..Len(s), j \in 0..Len(s) : i <= j /\ SubSeq(s, i + 1, j) = t

NamesMismatch ==
    LET a == lower(gitlab_project.name)
        b == lower(github_repo.name)
    IN  a # b /\ ~IsInfix(a, b) /\ ~IsInfix(b, a)

SourceAllZero ==
    /\ srcProject.fails = {}
    /\ srcProject.issues = <<>> /\ srcProject.merge_requests = <<>>
    /\ srcProject.labels = <<>> /\ srcProject.milestones = <<>>

\* C19: the name check is a warning exactly when the names are neither equal
\* ignoring case nor contained one in the other, a destination without
\* commits is a warning, and a reachable source with nothing in it is a
\* warning; none of them is ever blocking: when get_commits answers and the
\* access check is not an error, the operator is asked and validation passes
\* if the operator confirms.
C19_WarningsNeverBlock ==
    Validated =>
        LET warn == NamesMismatch \/ github_repo.commits = 0 \/ SourceAllZero
        IN  /\ validation_results[3].style = IF NamesMismatch THEN "yellow" ELSE "green"
            /\ github_repo.commits = 0 => validation_results[4].style = "yellow"
            /\ SourceAllZero => validation_results[5].style = "yellow"
            /\ warn => has_warnings
            /\ (github_repo.commits # -1 /\ srcProject.fails = {}) => ~has_blocking_errors
            /\ (warn /\ ~has_blocking_errors) => (tpc = "confirm" \/ asked)
            /\ (asked /\ proceed) => validation = "passed"

\* all three warnings at once, confirmed by the operator
C19_Witness ==
    /\ Validated
    /\ NamesMismatch /\ github_repo.commits = 0 /\ SourceAllZero
    /\ asked /\ proceed /\ validation = "passed"

\* C20: with dry_run set no step of export_metadata or import_metadata is
\* taken, no destination call is made, and no file of the export directory
\* is written.
C20_DryRunMutatesNothing ==
    [][dry_run =>
          /\ epc' = "idle" /\ pc' = "idle" /\ rpc' = "idle"
          /\ UNCHANGED <<destVars, fileVars>>]_vars

\* a dry run went through validation and analysis and returned True
C20_Witness ==
    /\ dry_run
    /\ tpc = "done" /\ transfer_result = "True"
    /\ validation = "passed"
    /\ metadata_check.check = "GitLab metadata access"
    /\ epc = "idle" /\ pc = "idle" /\ ~exportFile.exists

\* nothing after the client setup has happened: no handle was fetched, no
\* check was made, neither extraction nor import took a step, and the
\* mapping file is as the run found it
NothingAfterSetup ==
    /\ gitlab_project = NoHandle /\ github_repo = NoRepo
    /\ validation_results = <<>> /\ validation = "pending" /\ ~asked
    /\ metadata_check = NoCheck
    /\ epc = "idle" /\ pc = "idle" /\ rpc = "idle"
    /\ ~exportFile.exists /\ mappingFile \in MappingFiles \cup {ReadOnlyMappingFile}
    /\ destIssues = <<>> /\ imported_labels = EmptyMap

\* C21: when setup_gitlab_client or setup_github_client fails, the run ends
\* with False and no lookup, validation, extraction or import step is ever
\* taken; after a failed GitLab setup the GitHub client is not even built.
C21_AuthenticationFailureIsFatal ==
    /\ gitlab_client # "authenticated" =>
          /\ github_client = "None"
          /\ NothingAfterSetup
          /\ tpc \in {"start", "done"}
    /\ gitlab_client = "failed" => (tpc = "done" /\ transfer_result = "False")
    /\ github_client # "authenticated" => NothingAfterSetup
    /\ github_client = "failed" => (tpc = "done" /\ transfer_result = "False")

\* the GitHub setup failed after a successful GitLab setup, and the run is over
C21_Witness ==
    /\ gitlab_client = "authenticated"
    /\ github_client = "failed"
    /\ tpc = "done" /\ transfer_result = "False"
    /\ ~dry_run


\* import_metadata of a transfer has loaded the snapshot and the mappings
ImportLoaded ==
    /\ tpc \in {"import", "done"}
    /\ pc \notin {"idle", "start"}
    /\ exportFile.exists

\* no loaded mapping has a destination username
NoDestinationUsername ==
    \A u \in DOMAIN user_mappings : user_mappings[u].github_username = None

\* C37 as stated: whatever user_mapping.json held before the run, the import
\* of a transfer finds the file export has rewritten, with an empty
\* destination username in every entry, and loads no destination username.
C37_MappingsNeverCarryDestination ==
    ImportLoaded =>
        /\ mappingFile.exists
        /\ \A u \in DOMAIN mappingFile.data : mappingFile.data[u].github_username = ""
        /\ NoDestinationUsername

\* C37, amended: when user_mapping.json can be opened for writing, the import
\* of a transfer finds the file export has rewritten, with an empty
\* destination username in every entry, and loads no destination username.
\* When it cannot, create_user_mapping_file returns False, export goes on,
\* and the import loads the file as it was before the run, destination
\* usernames included.
C37_RewrittenWhenWritable ==
    ImportLoaded =>
        /\ mappingFile.writable =>
              /\ mappingFile.exists
              /\ mappingFile.data = user_mapping_data(all_users)
              /\ \A u \in DOMAIN mappingFile.data :
                    mappingFile.data[u].github_username = ""
              /\ DOMAIN user_mappings = DOMAIN mappingFile.data
              /\ NoDestinationUsername
        /\ ~mappingFile.writable =>
              /\ mappingFile = ReadOnlyMappingFile
              /\ DOMAIN user_mappings = DOMAIN EditedMapping
              /\ user_mappings["alice"].github_username = "alice_gh"
              /\ user_mappings["bob"].github_username = None

\* the import of a transfer has returned True with the file export wrote
\* and no mapping loaded from it
C37_Witness ==
    /\ ImportLoaded
    /\ tpc = "done" /\ transfer_result = "True"
    /\ mappingFile.writable /\ mappingFile.exists
    /\ mappingFile.data = user_mapping_data(all_users)
    /\ NoDestinationUsername

(***************************************************************************)
(* resolve_github_username (400-407) on its own: the function is called    *)
(* once with a mapping whose optional fields are unset (None), empty, or   *)
(* set.                                                                    *)
(***************************************************************************)
GitlabUsernames == {"alice", "bob", "user_7"}
GithubUsernames == {None, "", "alice_gh", "bob_gh"}
FallbackNames == {None, "", "Alice A", "Bob B", "Unknown User 7"}

ResolverArguments ==
    {UserMapping(u, 7, gh, fallback) :
        u \in GitlabUsernames, gh \in GithubUsernames, fallback \in FallbackNames}

ResolveGithubUsername ==
    /\ resolve_ret = <<>>
    /\ resolve_ret' = resolve_github_username(resolve_arg)
    /\ UNCHANGED <<resolve_arg, repoVars, importVars, fileVars, exportVars, transferVars>>

InitResolver ==
    /\ resolve_arg \in ResolverArguments
    /\ resolve_ret = <<>>
    /\ RepoIdle
    /\ ImportIdle
    /\ ExportIdle
    /\ TransferIdle
    /\ exportFile = [exists |-> FALSE, data |-> EmptySnapshot]
    /\ mappingFile = NoMappingFile
    /\ summaryFile = NoSummary

NextResolver == ResolveGithubUsername

SpecResolver == InitResolver /\ [][NextResolver]_vars

\* C26: resolve_github_username returns '@' and the destination username
\* when the mapping has one; otherwise the fallback display name when it has
\* one; otherwise '@', the source username and ' (GitLab)'.  An unset (None)
\* and an empty field both count as absent.
C26_FallbackChain ==
    resolve_ret # <<>> =>
        LET has_github == resolve_arg.github_username \notin {None, ""}
            has_fallback == resolve_arg.fallback_name \notin {None, ""}
        IN  /\ has_github => resolve_ret = <<"@", resolve_arg.github_username>>
            /\ (~has_github /\ has_fallback) => resolve_ret = <<resolve_arg.fallback_name>>
            /\ (~has_github /\ ~has_fallback) =>
                  resolve_ret = <<"@", resolve_arg.gitlab_username, " (GitLab)">>

\* the middle branch: no destination username, a fallback display name
C26_Witness ==
    /\ resolve_arg.github_username = ""
    /\ resolve_arg.fallback_name = "Unknown User 7"
    /\ resolve_ret = <<"Unknown User 7">>

(***************************************************************************)
(* GitTransfer.transfer_repository and dry_run_analysis                    *)
(* (src/gittransfer.py, 484-516 and 560-611) with the steps they call:     *)
(* clone_gitlab_repo (250-292), create_github_repo (354-386) and           *)
(* push_to_github (388-482).                                               *)
(***************************************************************************)
\* the GitLab repositories and the arguments the transfer is run with
SrcRepos ==
    [name : {"proj"}, branches : {<<"main">>, <<"main", "dev">>}, tags : BOOLEAN]
GithubOrgs == {"", "acme"}
NewRepoNames == {"", "renamed"}

\* 563-565: the method that does the work
RepositoryMode(dry) == IF dry THEN "dry_run_analysis" ELSE "transfer_repository"

\* `new_repo_name or gitlab_project.name` (510, 594)
TargetName(new_name, project_name) ==
    IF Truthy(new_name) THEN new_name ELSE project_name

\* one step of the run and whether it succeeded
Step(op, ok) == [op |-> op, ok |-> ok]

metadataVars == <<importVars, fileVars, exportVars, transferVars, resolverVars>>
repoInputs == <<gt_dry_run, github_org, new_repo_name, srcRepo>>
repoLocals == <<gt_project, temp_dir, repo_clone, tempDir, gt_github_repo, destRepo,
                reported_dir>>

\* setup_gitlab_client (38-62), called at 570 / 490
GtSetupGitlabClient ==
    /\ gpc = "start"
    /\ \E ok \in BOOLEAN :
          /\ gt_steps' = Append(gt_steps, Step("setup_gitlab_client", ok))
          /\ gpc' = IF ok THEN "setup_github" ELSE "done"
          /\ gt_result' = IF ok THEN gt_result ELSE "False"
    /\ UNCHANGED <<repoInputs, repoLocals, metadataVars>>

\* setup_github_client (64-73), called at 573 / 493
GtSetupGithubClient ==
    /\ gpc = "setup_github"
    /\ \E ok \in BOOLEAN :
          /\ gt_steps' = Append(gt_steps, Step("setup_github_client", ok))
          /\ gpc' = IF ok THEN "get_gitlab_project" ELSE "done"
          /\ gt_result' = IF ok THEN gt_result ELSE "False"
    /\ UNCHANGED <<repoInputs, repoLocals, metadataVars>>

\* get_gitlab_project (75-158), called at 577 / 497: the project or None;
\* from here dry_run_analysis and transfer_repository differ
GtGetGitlabProject ==
    /\ gpc = "get_gitlab_project"
    /\ \E ok \in BOOLEAN :
          /\ gt_steps' = Append(gt_steps, Step("get_gitlab_project", ok))
          /\ gt_project' = IF ok THEN srcRepo.name ELSE "None"
          /\ gpc' = IF ~ok THEN "done"
                    ELSE IF RepositoryMode(gt_dry_run) = "dry_run_analysis" THEN "analyze"
                    ELSE "mkdtemp"
          /\ gt_result' = IF ok THEN gt_result ELSE "False"
    /\ UNCHANGED <<repoInputs, temp_dir, repo_clone, tempDir, gt_github_repo, destRepo,
                   reported_dir, metadataVars>>

\* dry_run_analysis, 501-507: analyze_gitlab_project (160-248) and the table
GtAnalyze ==
    /\ gpc = "analyze"
    /\ \E ok \in BOOLEAN :
          /\ gt_steps' = Append(gt_steps, Step("analyze_gitlab_project", ok))
          /\ gpc' = IF ok THEN "validate" ELSE "done"
          /\ gt_result' = IF ok THEN gt_result ELSE "False"
    /\ UNCHANGED <<repoInputs, repoLocals, metadataVars>>

\* dry_run_analysis, 509-516: validate_github_repo_creation (294-352) only
\* reads the organization and the repository name
GtValidateCreation ==
    /\ gpc = "validate"
    /\ \E ok \in BOOLEAN :
          /\ gt_steps' = Append(gt_steps, Step("validate_github_repo_creation", ok))
          /\ gt_result' = IF ok THEN "True" ELSE "False"
    /\ gpc' = "done"
    /\ UNCHANGED <<repoInputs, repoLocals, metadataVars>>

\* 581-583: tempfile.mkdtemp
GtMkdtemp ==
    /\ gpc = "mkdtemp"
    /\ temp_dir' = "git_transfer_1"
    /\ tempDir' = [exists |-> TRUE, branches |-> <<>>]
    /\ gt_steps' = Append(gt_steps, Step("mkdtemp", TRUE))
    /\ gpc' = "clone"
    /\ UNCHANGED <<repoInputs, gt_project, repo_clone, gt_github_repo, destRepo,
                   reported_dir, gt_result, metadataVars>>

\* a variant that goes on to create_github_repo whatever the clone returned
AfterCloneIgnoresFailure(ok) == "create"

\* 587-588: `if not self.clone_gitlab_repo(...): return False`, inside the try
AfterClone(ok) == IF ok THEN "create" ELSE "cleanup"

\* clone_gitlab_repo (250-292): with dry_run it returns True at once;
\* otherwise clone_from and the fetch succeed, or clone_from raises, or the
\* fetch raises after clone_from has made the clone
GtClone ==
    /\ gpc = "clone"
    /\ IF gt_dry_run
       THEN /\ gpc' = AfterClone(TRUE)
            /\ UNCHANGED <<repo_clone, tempDir, gt_result, gt_steps>>
       ELSE \E outcome \in {"ok", "clone_from raises", "fetch raises"} :
               LET ok == outcome = "ok"
               IN  /\ repo_clone' = IF outcome = "clone_from raises" THEN repo_clone ELSE "Repo"
                   /\ tempDir' =
                         IF outcome = "clone_from raises" THEN tempDir
                         ELSE IF ok THEN [tempDir EXCEPT !.branches = srcRepo.branches]
                         ELSE [tempDir EXCEPT !.branches = <<Head(srcRepo.branches)>>]
                   /\ gt_steps' = Append(gt_steps, Step("clone_gitlab_repo", ok))
                   /\ gpc' = AfterClone(ok)
                   /\ gt_result' = IF ok THEN gt_result ELSE "False"
    /\ UNCHANGED <<repoInputs, gt_project, temp_dir, gt_github_repo, destRepo,
                   reported_dir, metadataVars>>

\* create_github_repo (354-386), called at 591-597: None with dry_run or
\* when create_repo raises
GtCreate ==
    /\ gpc = "create"
    /\ IF gt_dry_run
       THEN /\ gpc' = "cleanup"
            /\ gt_result' = "False"
            /\ UNCHANGED <<gt_github_repo, destRepo, gt_steps>>
       ELSE \E ok \in BOOLEAN :
               /\ destRepo' =
                     IF ok
                     THEN [exists |-> TRUE, owner |-> github_org,
                           name |-> TargetName(new_repo_name, gt_project),
                           branches |-> <<>>, tags |-> FALSE]
                     ELSE destRepo
               /\ gt_github_repo' = IF ok THEN "Repository" ELSE "None"
               /\ gt_steps' = Append(gt_steps, Step("create_github_repo", ok))
               /\ gpc' = IF ok THEN "push" ELSE "cleanup"
               /\ gt_result' = IF ok THEN gt_result ELSE "False"
    /\ UNCHANGED <<repoInputs, gt_project, temp_dir, repo_clone, tempDir,
                   reported_dir, metadataVars>>

\* push_to_github (388-482), called at 600-605.  The remote cannot be set up
\* and the handler of 477-482 names the temporary directory; or the branches
\* are pushed one by one, a branch or the tags that fail only giving a
\* warning (462-472), and the method returns True
GtPush ==
    /\ gpc = "push"
    /\ IF gt_dry_run
       THEN /\ gt_result' = "True"
            /\ UNCHANGED <<destRepo, reported_dir, gt_steps>>
       ELSE \/ /\ reported_dir' = temp_dir
               /\ gt_result' = "False"
               /\ gt_steps' = Append(gt_steps, Step("push_to_github", FALSE))
               /\ UNCHANGED destRepo
            \/ \E pushed \in SUBSET Range(tempDir.branches), tags_ok \in BOOLEAN :
                  /\ destRepo' = [destRepo EXCEPT
                                    !.branches = SelectSeq(tempDir.branches,
                                                           LAMBDA b : b \in pushed),
                                    !.tags = srcRepo.tags /\ tags_ok]
                  /\ gt_result' = "True"
                  /\ gt_steps' = Append(gt_steps, Step("push_to_github", TRUE))
                  /\ UNCHANGED reported_dir
    /\ gpc' = "cleanup"
    /\ UNCHANGED <<repoInputs, gt_project, temp_dir, repo_clone, tempDir,
                   gt_github_repo, metadataVars>>

\* the finally clause (607-611): the temporary directory is removed, whatever
\* the try block returned; when rmtree raises, the exception replaces the
\* return value
GtCleanup ==
    /\ gpc = "cleanup"
    /\ IF temp_dir # "None" /\ tempDir.exists
       THEN \E removed \in BOOLEAN :
               /\ tempDir' = IF removed THEN NoTempDir ELSE tempDir
               /\ gt_result' = IF removed THEN gt_result ELSE "raised"
       ELSE UNCHANGED <<tempDir, gt_result>>
    /\ gpc' = "done"
    /\ UNCHANGED <<repoInputs, gt_project, temp_dir, repo_clone, gt_github_repo,
                   destRepo, reported_dir, gt_steps, metadataVars>>

InitRepo ==
    /\ ImportIdle
    /\ ExportIdle
    /\ TransferIdle
    /\ ResolverIdle
    /\ exportFile = [exists |-> FALSE, data |-> EmptySnapshot]
    /\ mappingFile = NoMappingFile
    /\ summaryFile = NoSummary
    /\ gpc = "start"
    /\ gt_dry_run \in BOOLEAN
    /\ github_org \in GithubOrgs
    /\ new_repo_name \in NewRepoNames
    /\ srcRepo \in SrcRepos
    /\ gt_project = "None"
    /\ temp_dir = "None"
    /\ repo_clone = "None"
    /\ tempDir = NoTempDir
    /\ gt_github_repo = "None"
    /\ destRepo = NoDestRepo
    /\ reported_dir = "None"
    /\ gt_result = "pending"
    /\ gt_steps = <<>>

NextRepo ==
    \/ GtSetupGitlabClient
    \/ GtSetupGithubClient
    \/ GtGetGitlabProject
    \/ GtAnalyze
    \/ GtValidateCreation
    \/ GtMkdtemp
    \/ GtClone
    \/ GtCreate
    \/ GtPush
    \/ GtCleanup

SpecRepo == InitRepo /\ [][NextRepo]_vars

(***************************************************************************)
(* Properties of transfer_repository.                                      *)
(***************************************************************************)
\* C39: when push_to_github has failed in a transfer that is not a dry run,
\* the clone is still in the temporary directory the message named once
\* transfer_repository has returned.
C39_CloneKeptAfterPushFailure ==
    (gpc = "done" /\ reported_dir # "None" /\ gt_result = "False") =>
        /\ reported_dir = temp_dir
        /\ tempDir.exists
        /\ tempDir.branches # <<>>

\* the steps made so far that change something
MutatingSteps == {"mkdtemp", "clone_gitlab_repo", "create_github_repo", "push_to_github"}

\* C40: the steps of transfer_repository are gated.  The clone follows the
\* creation of the temporary directory, create_github_repo follows a clone
\* that succeeded, push_to_github follows a create_github_repo that
\* succeeded, no step follows a step that failed, and the run then ends with
\* False; the GitHub repository exists only after those steps.  With dry_run
\* set there is no temporary directory, no clone, no repository and no push
\* in any state.
C40_StepGating ==
    /\ \A k \in 1..Len(gt_steps) :
          /\ gt_steps[k].op = "clone_gitlab_repo" =>
                k > 1 /\ gt_steps[k - 1] = Step("mkdtemp", TRUE)
          /\ gt_steps[k].op = "create_github_repo" =>
                k > 1 /\ gt_steps[k - 1] = Step("clone_gitlab_repo", TRUE)
          /\ gt_steps[k].op = "push_to_github" =>
                k > 1 /\ gt_steps[k - 1] = Step("create_github_repo", TRUE)
          /\ ~gt_steps[k].ok =>
                /\ k = Len(gt_steps)
                /\ gpc \in {"cleanup", "done"}
                /\ gt_result \in {"False", "raised"}
    /\ destRepo.exists => Step("create_github_repo", TRUE) \in Range(gt_steps)
    /\ destRepo.branches # <<>> => Step("push_to_github", TRUE) \in Range(gt_steps)
    /\ tempDir.branches # <<>> => repo_clone = "Repo"
    /\ gt_dry_run =>
          /\ \A k \in 1..Len(gt_steps) : gt_steps[k].op \notin MutatingSteps
          /\ temp_dir = "None"
          /\ tempDir = NoTempDir
          /\ repo_clone = "None"
          /\ gt_github_repo = "None"
          /\ destRepo = NoDestRepo

\* a transfer has gone through every gate: both branches are on GitHub under
\* the new name
C40_Witness ==
    /\ gpc = "done" /\ gt_result = "True" /\ ~gt_dry_run
    /\ Len(gt_steps) = 7
    /\ destRepo.exists /\ destRepo.name = "renamed"
    /\ destRepo.branches = <<"main", "dev">>

====
